---- MODULE Spec2Model ----
(***************************************************************************)
(* State-machine model of the search orchestration core:                   *)
(*   - IntelligentThrottler (intelligent_throttler.py): per-engine circuit *)
(*     breaker, backoff and pacing;                                        *)
(*   - SearXNGClient.search (searxng_client.py): the request path that     *)
(*     wraps the HTTP call in the throttler;                               *)
(*   - SemanticCache (semantic_cache.py): L1 (Redis) / L2 (Qdrant) cache;  *)
(*   - TLSRotator (tls_rotation.py): the session shared by the requests.   *)
(* Times are integers in milliseconds (the code uses float seconds).       *)
(***************************************************************************)
EXTENDS Integers, Sequences, FiniteSets, TLC

VARIABLES
    now,                \* wall clock, time.time()
    engine_health,      \* IntelligentThrottler.engine_health: engine -> EngineHealth
    last_request_time,  \* IntelligentThrottler.last_request_time
    last_call,          \* the throttler call made by the latest step, with its outcome
    run,                \* history: per engine, the record_failure calls since the
                        \* latest record_success, and whether that run began CLOSED
    req,                \* SearXNGClient.search invocations in progress
    redis,              \* SemanticCache._redis: [on, db], db: key -> [value, expire_at]
    qdrant,             \* SemanticCache._qdrant: [on, points], points: id -> [vector, payload]
    stats,              \* SemanticCache.stats
    last_get,           \* what the latest SemanticCache.get returned
    last_store,         \* what the latest SemanticCache.store was given and returned
    last_invalidate,    \* what the SemanticCache.invalidate just made was given and returned
    calls,              \* history: the number of cache calls made
    race,               \* a get and a store in progress, step by step
    fusion,             \* a call of ResultFusion.fuse: its arguments and its result
    feedback,           \* FeedbackLoop: _performance, and what its Redis holds
    reranker,           \* CrossEncoderReranker: _model, _lock, and the tasks inside rerank
    pipe,               \* a call of SearXNGClient.search_full_pipeline, step by step
    tls                 \* TLSRotator: _session, _lock, and the tasks inside get

throttlerVars == <<engine_health, last_request_time, last_call, run, req>>

cacheVars == <<redis, qdrant, stats, last_get, last_store, last_invalidate, calls>>

\* What the throttler and the client leave alone, and what the cache does.
raceVars == <<race>>

fusionVars == <<fusion>>

feedbackVars == <<feedback>>

rerankerVars == <<reranker>>

pipeVars == <<pipe>>

tlsVars == <<tls>>

\* The components that came after the cache.
restVars == <<fusionVars, feedbackVars, rerankerVars, pipeVars, tlsVars>>

nonRaceVars == <<throttlerVars, restVars>>

nonThrottlerVars == <<cacheVars, raceVars, restVars>>

nonCacheVars == <<throttlerVars, raceVars, restVars>>

vars == <<now, throttlerVars, cacheVars, raceVars, restVars>>

---------------------------------------------------------------------------
(* Bounds of the model *)

\* Value of time.time() when the process starts.
StartTime == 1000000

\* The clock is not advanced past StartTime + MaxElapsed.
MaxElapsed == 120000

\* record_failure is called at most this many times in a run.
MaxFailures == 6

\* wait_before_request admits at most this many requests in a run.
MaxRequests == 4

\* Clock advances.
TickSteps == {60000}

Engines == {"brave", "bing"}

\* The engine the throttler is driven with when it is checked on its own.
ThrottledEngines == {"brave"}

ErrorTypes == {"unknown", "rate_limit", "captcha", "access_denied"}

---------------------------------------------------------------------------
(* intelligent_throttler.py *)

CLOSED == "closed"
OPEN == "open"
HALF_OPEN == "half_open"

BASE_DELAY == 1000
MAX_DELAY == 60000
MIN_HUMAN_DELAY == 500
MAX_HUMAN_DELAY == 3000
FAILURE_THRESHOLD == 3
RECOVERY_TIMEOUT == 60000
MAX_RECOVERY_TIMEOUT == 600000

Min(a, b) == IF a <= b THEN a ELSE b
Max(a, b) == IF a >= b THEN a ELSE b

RECURSIVE Pow2(_)
Pow2(n) == IF n = 0 THEN 1 ELSE 2 * Pow2(n - 1)

\* random.uniform(lo, hi): the draws the model takes from the interval.
Uniform(lo, hi) == {lo, hi}

\* random.expovariate(POISSON_RATE): a draw below and a draw above the clamp.
Expovariate == {100, 10000}

\* EngineHealth(name=engine)
EngineHealth(engine) ==
    [name |-> engine,
     consecutive_failures |-> 0,
     last_failure_time |-> 0,
     last_success_time |-> 0,
     circuit_state |-> CLOSED,
     current_backoff |-> BASE_DELAY,
     total_requests |-> 0,
     total_failures |-> 0,
     failure_threshold |-> FAILURE_THRESHOLD,
     recovery_timeout |-> RECOVERY_TIMEOUT]

\* _get_engine_health: the map after the get-or-create.
GetEngineHealth(eh, engine) ==
    IF engine \in DOMAIN eh THEN eh ELSE eh @@ (engine :> EngineHealth(engine))

\* _poisson_delay
PoissonDelay ==
    {Max(MIN_HUMAN_DELAY, Min(d, MAX_HUMAN_DELAY * 2)) : d \in Expovariate}

\* Mutant: the exponential backoff is not capped.
FullJitterBackoff_Uncapped(attempt) ==
    Uniform(0, BASE_DELAY * Pow2(attempt))

\* _full_jitter_backoff
FullJitterBackoff(attempt) ==
    Uniform(0, Min(BASE_DELAY * Pow2(attempt), MAX_DELAY))

\* _decorrelated_jitter_backoff
DecorrelatedJitterBackoff(previous_delay) ==
    Uniform(BASE_DELAY, Min(previous_delay * 3, MAX_DELAY))

\* Mutant: the cooldown is measured against the default recovery timeout, not
\* the engine's own.
CircuitRejects_DefaultTimeout(h, t) ==
    /\ h.circuit_state = OPEN
    /\ t - h.last_failure_time < RECOVERY_TIMEOUT

\* Mutant: the cooldown still holds at exactly recovery_timeout.
CircuitRejects_Inclusive(h, t) ==
    /\ h.circuit_state = OPEN
    /\ t - h.last_failure_time <= h.recovery_timeout

\* wait_before_request, the circuit-breaker check: the call raises CircuitOpenError.
CircuitRejects(h, t) ==
    /\ h.circuit_state = OPEN
    /\ t - h.last_failure_time < h.recovery_timeout

\* wait_before_request, "Try half-open".
AfterCircuitCheck(h) ==
    IF h.circuit_state = OPEN THEN [h EXCEPT !.circuit_state = HALF_OPEN] ELSE h

\* wait_before_request, "Calculate delay": the delays the call may draw.
RequestDelays(h, t, lrt) ==
    IF h.consecutive_failures > 0
    THEN FullJitterBackoff(h.consecutive_failures)
    ELSE IF t - lrt < MIN_HUMAN_DELAY
         THEN PoissonDelay
         ELSE {Max(0, MIN_HUMAN_DELAY - (t - lrt))}

\* wait_before_request: the health map after an admitted call.
AfterAdmit(eh, engine) ==
    LET eh1 == GetEngineHealth(eh, engine)
        h == AfterCircuitCheck(eh1[engine])
    IN  [eh1 EXCEPT ![engine] = [h EXCEPT !.total_requests = @ + 1]]

\* Mutant: a success leaves a HALF_OPEN circuit as it is.
AfterRecordSuccess_KeepsHalfOpen(eh, engine, t) ==
    LET eh1 == GetEngineHealth(eh, engine)
        h == eh1[engine]
    IN  [eh1 EXCEPT ![engine] =
            [h EXCEPT !.consecutive_failures = 0,
                      !.current_backoff = BASE_DELAY,
                      !.last_success_time = t]]

\* Mutant: a success puts the recovery timeout back to its default.
AfterRecordSuccess_ResetsTimeout(eh, engine, t) ==
    LET eh1 == GetEngineHealth(eh, engine)
        h == eh1[engine]
    IN  [eh1 EXCEPT ![engine] =
            [h EXCEPT !.consecutive_failures = 0,
                      !.current_backoff = BASE_DELAY,
                      !.last_success_time = t,
                      !.recovery_timeout = RECOVERY_TIMEOUT,
                      !.circuit_state =
                          IF h.circuit_state = HALF_OPEN THEN CLOSED ELSE @]]

\* record_success: the health map after the call.
AfterRecordSuccess(eh, engine, t) ==
    LET eh1 == GetEngineHealth(eh, engine)
        h == eh1[engine]
    IN  [eh1 EXCEPT ![engine] =
            [h EXCEPT !.consecutive_failures = 0,
                      !.current_backoff = BASE_DELAY,
                      !.last_success_time = t,
                      !.circuit_state =
                          IF h.circuit_state = HALF_OPEN THEN CLOSED ELSE @]]

\* Mutant: the circuit opens one failure late.
OpensCircuit_Above(h) == h.consecutive_failures > h.failure_threshold

\* record_failure, "Check if circuit should open".
OpensCircuit(h) == h.consecutive_failures >= h.failure_threshold

\* Mutant: a captcha or access_denied failure doubles the recovery timeout
\* whether or not the circuit opens.
AfterRecordFailure_AlwaysDoubles(eh, engine, error_type, t, backoff) ==
    LET eh1 == GetEngineHealth(eh, engine)
        h0 == eh1[engine]
        h1 == [h0 EXCEPT !.consecutive_failures = @ + 1,
                         !.total_failures = @ + 1,
                         !.last_failure_time = t,
                         !.current_backoff = backoff,
                         !.recovery_timeout =
                             IF error_type \in {"captcha", "access_denied"}
                             THEN Min(@ * 2, MAX_RECOVERY_TIMEOUT)
                             ELSE @]
    IN  [eh1 EXCEPT ![engine] =
            IF OpensCircuit(h1) THEN [h1 EXCEPT !.circuit_state = OPEN] ELSE h1]

\* record_failure: the health map after the call; backoff is the value drawn
\* by _decorrelated_jitter_backoff.
AfterRecordFailure(eh, engine, error_type, t, backoff) ==
    LET eh1 == GetEngineHealth(eh, engine)
        h0 == eh1[engine]
        h1 == [h0 EXCEPT !.consecutive_failures = @ + 1,
                         !.total_failures = @ + 1,
                         !.last_failure_time = t,
                         !.current_backoff = backoff]
        h2 == IF OpensCircuit(h1)
              THEN [h1 EXCEPT !.circuit_state = OPEN,
                              !.recovery_timeout =
                                  IF error_type \in {"captcha", "access_denied"}
                                  THEN Min(@ * 2, MAX_RECOVERY_TIMEOUT)
                                  ELSE @]
              ELSE h1
    IN  [eh1 EXCEPT ![engine] = h2]

\* Calls counted so far over all engines (for the bounds of the model).
RECURSIVE SumRequests(_, _)
SumRequests(eh, S) ==
    IF S = {} THEN 0
    ELSE LET e == CHOOSE x \in S : TRUE
         IN  eh[e].total_requests + SumRequests(eh, S \ {e})

RECURSIVE SumFailures(_, _)
SumFailures(eh, S) ==
    IF S = {} THEN 0
    ELSE LET e == CHOOSE x \in S : TRUE
         IN  eh[e].total_failures + SumFailures(eh, S \ {e})

\* The cache as it is when no SemanticCache has been constructed.
CacheUnused ==
    /\ redis = [on |-> FALSE, db |-> <<>>]
    /\ qdrant = [on |-> FALSE, points |-> <<>>]
    /\ stats = <<>>
    /\ last_get = <<>>
    /\ last_store = <<>>
    /\ last_invalidate = <<>>
    /\ race = <<>>
    /\ calls = 0

\* The later components as they are when none has been constructed.
RestUnused ==
    /\ fusion = <<>>
    /\ feedback = <<>>
    /\ reranker = <<>>
    /\ pipe = <<>>
    /\ tls = <<>>

\* The record of a throttler call: wait_before_request either raises
\* CircuitOpenError or returns its delay, sleeping it when it is positive.
Call(op, engine, raised, delay) ==
    [op |-> op, engine |-> engine, raised |-> raised, delay |-> delay,
     slept |-> (~raised /\ delay > 0)]

NoCall == Call("", "", FALSE, 0)

\* History of the failure run of an engine (not program state);
\* failed_call_at is the time of the engine's latest failed HTTP call.
NewRun == [failures |-> 0, started_closed |-> TRUE, failed_call_at |-> 0]

RunAfterSuccess(r, eh, engine) ==
    [e \in DOMAIN eh |->
        LET old == IF e \in DOMAIN r THEN r[e] ELSE NewRun
        IN  IF e = engine
            THEN [old EXCEPT !.failures = 0,
                             !.started_closed = eh[e].circuit_state = CLOSED]
            ELSE old]

RunAfterFailure(r, eh, engine) ==
    [e \in DOMAIN eh |->
        LET old == IF e \in DOMAIN r THEN r[e] ELSE NewRun
        IN  IF e = engine THEN [old EXCEPT !.failures = @ + 1] ELSE old]

\* The history after a failure that the HTTP call of a search raised at t.
RunAfterFailedCall(r, eh, engine, t) ==
    [RunAfterFailure(r, eh, engine) EXCEPT ![engine].failed_call_at = t]

RunAfterWait(r, eh) ==
    [e \in DOMAIN eh |-> IF e \in DOMAIN r THEN r[e] ELSE NewRun]

\* wait_before_request(engine)
WaitBeforeRequest(engine) ==
    LET eh1 == GetEngineHealth(engine_health, engine)
        h == eh1[engine]
    IN  /\ SumRequests(engine_health, DOMAIN engine_health) < MaxRequests
        /\ IF CircuitRejects(h, now)
           THEN /\ engine_health' = eh1
                /\ last_request_time' = last_request_time
                /\ last_call' = Call("wait_before_request", engine, TRUE, 0)
           ELSE \E delay \in RequestDelays(AfterCircuitCheck(h), now, last_request_time) :
                    /\ engine_health' = AfterAdmit(engine_health, engine)
                    /\ last_request_time' = now + delay
                    /\ last_call' = Call("wait_before_request", engine, FALSE, delay)
        /\ run' = RunAfterWait(run, eh1)
        /\ UNCHANGED <<now, req, nonThrottlerVars>>

\* record_success(engine)
RecordSuccess(engine) ==
    /\ engine_health' = AfterRecordSuccess(engine_health, engine, now)
    /\ last_call' = Call("record_success", engine, FALSE, 0)
    /\ run' = RunAfterSuccess(run, engine_health', engine)
    /\ UNCHANGED <<now, last_request_time, req, nonThrottlerVars>>

\* record_failure(engine, error_type)
RecordFailure(engine, error_type) ==
    LET h == GetEngineHealth(engine_health, engine)[engine]
    IN  /\ SumFailures(engine_health, DOMAIN engine_health) < MaxFailures
        /\ \E backoff \in DecorrelatedJitterBackoff(h.current_backoff) :
               engine_health' =
                   AfterRecordFailure(engine_health, engine, error_type, now, backoff)
        /\ last_call' = Call("record_failure", engine, FALSE, 0)
        /\ run' = RunAfterFailure(run, engine_health', engine)
        /\ UNCHANGED <<now, last_request_time, req, nonThrottlerVars>>

\* time.time() advances.
Tick ==
    /\ \E d \in TickSteps :
           /\ now + d <= StartTime + MaxElapsed
           /\ now' = now + d
    /\ last_call' = NoCall
    /\ UNCHANGED <<engine_health, last_request_time, run, req, nonThrottlerVars>>

InitThrottler ==
    /\ now = StartTime
    /\ engine_health = <<>>
    /\ last_request_time = 0
    /\ last_call = NoCall
    /\ run = <<>>
    /\ req = <<>>
    /\ CacheUnused
    /\ RestUnused

NextThrottler ==
    \/ \E e \in ThrottledEngines : WaitBeforeRequest(e)
    \/ \E e \in ThrottledEngines : RecordSuccess(e)
    \/ \E e \in ThrottledEngines, k \in ErrorTypes : RecordFailure(e, k)
    \/ Tick

SpecThrottler == InitThrottler /\ [][NextThrottler]_vars

---------------------------------------------------------------------------
(* Circuit breaker properties, checked under SpecThrottler *)

Known(e) == e \in DOMAIN engine_health

Called(op, e) == last_call'.op = op /\ last_call'.engine = e

C2_OpenCircuitRejectsUnchanged ==
    [][\A e \in Engines :
          (/\ Called("wait_before_request", e)
           /\ Known(e)
           /\ engine_health[e].circuit_state = OPEN
           /\ now - engine_health[e].last_failure_time
                  < engine_health[e].recovery_timeout)
          => /\ last_call'.raised
             /\ ~last_call'.slept
             /\ engine_health' = engine_health
             /\ last_request_time' = last_request_time]_vars

C2_Witness ==
    \E e \in DOMAIN engine_health :
        /\ last_call = Call("wait_before_request", e, TRUE, 0)
        /\ engine_health[e].circuit_state = OPEN
        /\ now - engine_health[e].last_failure_time > 0
        /\ now - engine_health[e].last_failure_time < engine_health[e].recovery_timeout

\* C3: when the circuit is OPEN and now - last_failure_time >= recovery_timeout,
\* the next wait_before_request does not raise, moves the circuit to HALF_OPEN
\* and counts the request in total_requests.
C3_RecoveryTimeoutHalfOpens ==
    [][\A e \in Engines :
          (/\ Called("wait_before_request", e)
           /\ Known(e)
           /\ engine_health[e].circuit_state = OPEN
           /\ now - engine_health[e].last_failure_time
                  >= engine_health[e].recovery_timeout)
          => /\ ~last_call'.raised
             /\ engine_health'[e].circuit_state = HALF_OPEN
             /\ engine_health'[e].total_requests
                    = engine_health[e].total_requests + 1]_vars

C3_Witness ==
    \E e \in DOMAIN engine_health :
        /\ last_call.op = "wait_before_request"
        /\ last_call.engine = e
        /\ ~last_call.raised
        /\ engine_health[e].circuit_state = HALF_OPEN
        /\ now - engine_health[e].last_failure_time = engine_health[e].recovery_timeout

\* C4: record_success always sets consecutive_failures to 0 and current_backoff
\* to the base delay, and a single record_success on a HALF_OPEN circuit makes
\* it CLOSED.
C4_SuccessResetsAndCloses ==
    [][\A e \in Engines :
          Called("record_success", e)
          => /\ engine_health'[e].consecutive_failures = 0
             /\ engine_health'[e].current_backoff = BASE_DELAY
             /\ (Known(e) /\ engine_health[e].circuit_state = HALF_OPEN)
                => engine_health'[e].circuit_state = CLOSED]_vars

C4_Witness ==
    \E e \in DOMAIN engine_health :
        /\ last_call = Call("record_success", e, FALSE, 0)
        /\ engine_health[e].circuit_state = CLOSED
        /\ engine_health[e].total_failures >= FAILURE_THRESHOLD
        /\ engine_health[e].total_requests > 0
        /\ engine_health[e].consecutive_failures = 0
        /\ engine_health[e].current_backoff = BASE_DELAY

\* C5: in every reachable state whose circuit is HALF_OPEN, a record_failure on
\* that engine moves the circuit to OPEN and sets last_failure_time to now.
C5_HalfOpenFailureReopens ==
    [][\A e \in Engines :
          (/\ Called("record_failure", e)
           /\ Known(e)
           /\ engine_health[e].circuit_state = HALF_OPEN)
          => /\ engine_health'[e].circuit_state = OPEN
             /\ engine_health'[e].last_failure_time = now]_vars

\* C27: the delay of an admitted wait_before_request on an engine with
\* n > 0 consecutive failures lies between 0 and min(60 s, 1 s * 2^n), and
\* the current_backoff of every engine lies between 1 s and 60 s.
C27_BackoffBounds ==
    /\ \A e \in DOMAIN engine_health :
          /\ engine_health[e].current_backoff >= 1000
          /\ engine_health[e].current_backoff <= 60000
    /\ \A e \in DOMAIN engine_health :
          (/\ last_call.op = "wait_before_request"
           /\ last_call.engine = e
           /\ ~last_call.raised
           /\ engine_health[e].consecutive_failures > 0)
          => /\ last_call.delay >= 0
             /\ last_call.delay <= 60000
             /\ last_call.delay
                    <= 1000 * Pow2(engine_health[e].consecutive_failures)

\* After six failures in a row, with the stored backoff at its cap, a request
\* was admitted and has slept the whole 60 s, where 2^6 s would be 64 s.
C27_Witness ==
    \E e \in DOMAIN engine_health :
        /\ last_call.op = "wait_before_request"
        /\ last_call.engine = e
        /\ ~last_call.raised
        /\ engine_health[e].consecutive_failures = 6
        /\ engine_health[e].current_backoff = 60000
        /\ last_call.delay = 60000

\* recovery_timeout of the engine before the call (of a new engine: the default).
RecoveryTimeoutOf(e) == GetEngineHealth(engine_health, e)[e].recovery_timeout

C37_CircuitMatchesFailureCount ==
    \A e \in DOMAIN engine_health :
        LET h == engine_health[e]
        IN  /\ h.circuit_state = CLOSED
                => h.consecutive_failures < h.failure_threshold
            /\ h.circuit_state = OPEN
                => h.consecutive_failures >= h.failure_threshold

\* C38: the recovery_timeout of every engine lies between 60 s and 600 s, no
\* step lowers it, and record_success leaves it as it is.
C38_RecoveryTimeoutOnlyGrows ==
    /\ [](\A e \in DOMAIN engine_health :
             /\ engine_health[e].recovery_timeout >= RECOVERY_TIMEOUT
             /\ engine_health[e].recovery_timeout <= MAX_RECOVERY_TIMEOUT)
    /\ [][\A e \in DOMAIN engine_health :
             /\ engine_health'[e].recovery_timeout
                    >= engine_health[e].recovery_timeout
             /\ Called("record_success", e)
                    => engine_health'[e].recovery_timeout
                           = engine_health[e].recovery_timeout]_vars

\* A captcha failure doubled the recovery timeout, the circuit was tried
\* HALF_OPEN after it, and the record_success that closed the circuit has
\* left the doubled timeout in place.
C38_Witness ==
    \E e \in DOMAIN engine_health :
        /\ last_call = Call("record_success", e, FALSE, 0)
        /\ engine_health[e].circuit_state = CLOSED
        /\ engine_health[e].total_failures >= FAILURE_THRESHOLD
        /\ engine_health[e].last_success_time
               >= engine_health[e].last_failure_time
                      + engine_health[e].recovery_timeout
        /\ engine_health[e].recovery_timeout = 2 * RECOVERY_TIMEOUT

---------------------------------------------------------------------------
(* wait_before_request called by concurrent tasks: self._lock and the sleep. *)
(* A task runs from one await to the next: it takes the lock, updates the    *)
(* state and leaves the "async with" block in one step, then sleeps.         *)

Tasks == {"t1", "t2"}

\* The concurrent tasks are admitted at most this many times in a run, and
\* record_failure is called at most this many times.
MaxAcquires == 2
MaxLockFailures == 3

\* The engines the concurrent calls are made for, and the one that fails.
LockEngines == {"brave", "bing"}
FailingEngines == {"brave"}

IdleAcquire == [pc |-> "idle", engine |-> "", wake |-> 0, outcome |-> ""]

\* Mutant: the sleep is inside the "async with self._lock" block.
LockAfterUpdate_HeldInSleep(t) == t

\* Who holds self._lock when the task reaches asyncio.sleep: the block has
\* been left, so nobody.
LockAfterUpdate(t) == ""

\* wait_before_request(engine) up to its first suspension: a task that finds
\* the lock held waits for it; otherwise it runs the block and raises
\* CircuitOpenError, returns a zero delay, or goes to sleep.
AcquireEnter(t, engine) ==
    LET a == req.acquire[t]
        eh1 == GetEngineHealth(engine_health, engine)
        h == eh1[engine]
    IN  /\ a.pc \in {"idle", "waiting"}
        /\ a.pc = "waiting" => engine = a.engine
        /\ SumRequests(engine_health, DOMAIN engine_health) < MaxAcquires
        /\ IF req.lock # ""
           THEN /\ a.pc = "idle"
                /\ req' = [req EXCEPT !.acquire[t] =
                              [IdleAcquire EXCEPT !.pc = "waiting",
                                                  !.engine = engine]]
                /\ UNCHANGED <<engine_health, last_request_time, last_call, run>>
           ELSE IF CircuitRejects(h, now)
           THEN /\ engine_health' = eh1
                /\ last_request_time' = last_request_time
                /\ last_call' = Call("wait_before_request", engine, TRUE, 0)
                /\ req' = [req EXCEPT !.acquire[t] =
                              [IdleAcquire EXCEPT !.engine = engine,
                                                  !.outcome = "CircuitOpenError"]]
                /\ run' = RunAfterWait(run, eh1)
           ELSE \E delay \in RequestDelays(AfterCircuitCheck(h), now,
                                           last_request_time) :
                    /\ engine_health' = AfterAdmit(engine_health, engine)
                    /\ last_request_time' = now + delay
                    /\ last_call' = Call("wait_before_request", engine, FALSE, delay)
                    /\ req' =
                          IF delay > 0
                          THEN [req EXCEPT
                                  !.lock = LockAfterUpdate(t),
                                  !.acquire[t] =
                                      [IdleAcquire EXCEPT !.pc = "sleeping",
                                                          !.engine = engine,
                                                          !.wake = now + delay]]
                          ELSE [req EXCEPT
                                  !.acquire[t] =
                                      [IdleAcquire EXCEPT !.engine = engine,
                                                          !.outcome = "returned"]]
                    /\ run' = RunAfterWait(run, eh1)
        /\ UNCHANGED <<now, nonThrottlerVars>>

\* asyncio.sleep(delay) is over: wait_before_request returns its delay.
AcquireWake(t) ==
    /\ req.acquire[t].pc = "sleeping"
    /\ now >= req.acquire[t].wake
    /\ req' = [req EXCEPT !.lock = IF @ = t THEN "" ELSE @,
                          !.acquire[t].pc = "idle",
                          !.acquire[t].outcome = "returned"]
    /\ last_call' = NoCall
    /\ UNCHANGED <<now, engine_health, last_request_time, run, nonThrottlerVars>>

\* The times at which the sleeping tasks are due.
DueTimes == {req.acquire[t].wake : t \in {u \in Tasks :
                 req.acquire[u].pc = "sleeping" /\ req.acquire[u].wake > now}}

\* Time passes until the next sleeping task is due.
SleepTick ==
    /\ DueTimes # {}
    /\ now' = CHOOSE w \in DueTimes : \A v \in DueTimes : w <= v
    /\ last_call' = NoCall
    /\ UNCHANGED <<engine_health, last_request_time, run, req, nonThrottlerVars>>

InitThrottlerLock ==
    /\ now = StartTime
    /\ engine_health = <<>>
    /\ last_request_time = 0
    /\ last_call = NoCall
    /\ run = <<>>
    /\ req = [lock |-> "", acquire |-> [t \in Tasks |-> IdleAcquire]]
    /\ CacheUnused
    /\ RestUnused

NextThrottlerLock ==
    \/ \E t \in Tasks, e \in LockEngines : AcquireEnter(t, e)
    \/ \E t \in Tasks : AcquireWake(t)
    \/ SleepTick
    \/ \E e \in FailingEngines :
           /\ SumFailures(engine_health, DOMAIN engine_health) < MaxLockFailures
           /\ RecordFailure(e, "unknown")

\* The event loop resumes a task whose sleep is over or whose lock is free,
\* and time passes.
FairThrottlerLock ==
    /\ \A t \in Tasks : WF_vars(AcquireWake(t))
    /\ \A t \in Tasks :
          WF_vars(req.acquire[t].pc = "waiting"
                      /\ \E e \in LockEngines : AcquireEnter(t, e))
    /\ WF_vars(SleepTick)

SpecThrottlerLock ==
    InitThrottlerLock /\ [][NextThrottlerLock]_vars /\ FairThrottlerLock

\* No task is inside the "async with self._lock" block while a task sleeps,
\* and no task is kept waiting for the lock.
LockFreeDuringSleep ==
    /\ req.lock = ""
    /\ \A t \in Tasks : req.acquire[t].pc # "waiting"

\* C33: the lock of the throttler is held for the state update only, never
\* across the sleep, so that a second wait_before_request runs its update and
\* starts its own sleep while the first one sleeps; and every
\* wait_before_request that was suspended returns.
C33_LockNotHeldAcrossSleep ==
    /\ []LockFreeDuringSleep
    /\ \A t \in Tasks :
          (req.acquire[t].pc \in {"sleeping", "waiting"})
              ~> (req.acquire[t].pc = "idle")

\* Two calls for the same engine sleep at the same time, the second one
\* having started after the first.
C33_Witness ==
    /\ req.lock = ""
    /\ req.acquire["t1"].pc = "sleeping"
    /\ req.acquire["t2"].pc = "sleeping"
    /\ req.acquire["t1"].engine = req.acquire["t2"].engine
    /\ req.acquire["t1"].wake < req.acquire["t2"].wake

---------------------------------------------------------------------------
(* searxng_client.py: SearXNGClient.search over the shared throttler *)

\* Concurrent search() invocations (asyncio tasks).
Requests == {"r1"}

\* The client is constructed with default_engines = [brave, bing].
DefaultEngines == <<"brave", "bing">>

\* The engines argument of search(); <<>> stands for None.
EngineLists == {<<>>, <<"brave">>, <<"bing">>, <<"brave", "bing">>, <<"bing", "brave">>}

\* How the HTTP call ends: a 2xx response, HTTPStatusError with status 429,
\* HTTPStatusError with another status, any other exception.
HttpResults == {"ok", "status_429", "status_error", "exception"}

IdleRequest ==
    [pc |-> "idle", engines |-> <<>>, engine_name |-> "", rejected |-> FALSE,
     passed |-> FALSE, sent |-> <<>>, wake |-> 0, outcome |-> ""]

\* search, params["engines"] before throttling.
ParamsEngines(engines) == IF engines # <<>> THEN engines ELSE DefaultEngines

\* search, "Determine primary engine for throttling".
PrimaryEngine(engines) == IF engines # <<>> THEN engines[1] ELSE DefaultEngines[1]

\* search, except CircuitOpenError: the request goes on with engines[1:].
ProceedsWithoutPrimary(engines) == Len(engines) > 1

\* search, the except clauses: the error_type handed to record_failure.
ErrorTypeOf(result) ==
    IF result = "status_429" THEN "rate_limit"
    ELSE IF result = "status_error" THEN "http_error"
    ELSE "unknown"

SeqToSet(q) == {q[i] : i \in 1..Len(q)}

\* search() up to its first suspension: the throttler is asked for the primary
\* engine; the request then sleeps its delay, or is sent at once, or is abandoned.
SearchStart(r, engines) ==
    LET engine_name == PrimaryEngine(engines)
        eh1 == GetEngineHealth(engine_health, engine_name)
        h == eh1[engine_name]
        started == [IdleRequest EXCEPT !.engines = engines,
                                       !.engine_name = engine_name]
    IN  /\ req[r].pc = "idle"
        /\ SumRequests(engine_health, DOMAIN engine_health) < MaxRequests
        /\ IF CircuitRejects(h, now)
           THEN IF ProceedsWithoutPrimary(engines)
                THEN /\ engine_health' = eh1
                     /\ last_request_time' = last_request_time
                     /\ req' = [req EXCEPT ![r] =
                                   [started EXCEPT !.pc = "in_flight",
                                                   !.rejected = TRUE,
                                                   !.sent = Tail(engines)]]
                     /\ last_call' = Call("wait_before_request", engine_name, TRUE, 0)
                     /\ run' = RunAfterWait(run, eh1)
                ELSE /\ SumFailures(engine_health, DOMAIN engine_health) < MaxFailures
                     /\ \E backoff \in DecorrelatedJitterBackoff(h.current_backoff) :
                            engine_health' =
                                AfterRecordFailure(eh1, engine_name, "unknown", now, backoff)
                     /\ req' = [req EXCEPT ![r] =
                                   [started EXCEPT !.rejected = TRUE,
                                                   !.outcome = "CircuitOpenError"]]
                     /\ last_call' = Call("record_failure", engine_name, FALSE, 0)
                     /\ run' = RunAfterFailure(run, engine_health', engine_name)
                     /\ last_request_time' = last_request_time
           ELSE \E delay \in RequestDelays(AfterCircuitCheck(h), now, last_request_time) :
                    /\ engine_health' = AfterAdmit(engine_health, engine_name)
                    /\ last_request_time' = now + delay
                    /\ req' = [req EXCEPT ![r] =
                                  IF delay > 0
                                  THEN [started EXCEPT !.pc = "sleeping",
                                                       !.passed = TRUE,
                                                       !.wake = now + delay]
                                  ELSE [started EXCEPT !.pc = "in_flight",
                                                       !.passed = TRUE,
                                                       !.sent = ParamsEngines(engines)]]
                    /\ last_call' = Call("wait_before_request", engine_name, FALSE, delay)
                    /\ run' = RunAfterWait(run, eh1)
        /\ UNCHANGED <<now, nonThrottlerVars>>

\* asyncio.sleep(delay) is over: client.get sends the request.
SearchSend(r) ==
    /\ req[r].pc = "sleeping"
    /\ now >= req[r].wake
    /\ req' = [req EXCEPT ![r].pc = "in_flight",
                          ![r].sent = ParamsEngines(req[r].engines)]
    /\ last_call' = NoCall
    /\ UNCHANGED <<now, engine_health, last_request_time, run, nonThrottlerVars>>

\* The HTTP call returns or raises; search records it against the primary engine.
SearchResponse(r, result) ==
    LET engine_name == req[r].engine_name
        h == GetEngineHealth(engine_health, engine_name)[engine_name]
    IN  /\ req[r].pc = "in_flight"
        /\ IF result = "ok"
           THEN /\ engine_health' = AfterRecordSuccess(engine_health, engine_name, now)
                /\ req' = [req EXCEPT ![r].pc = "idle", ![r].outcome = "SearchResponse"]
                /\ last_call' = Call("record_success", engine_name, FALSE, 0)
                /\ run' = RunAfterSuccess(run, engine_health', engine_name)
           ELSE /\ SumFailures(engine_health, DOMAIN engine_health) < MaxFailures
                /\ \E backoff \in DecorrelatedJitterBackoff(h.current_backoff) :
                       engine_health' =
                           AfterRecordFailure(engine_health, engine_name,
                                              ErrorTypeOf(result), now, backoff)
                /\ req' = [req EXCEPT ![r].pc = "idle",
                                      ![r].outcome =
                                          IF result = "exception" THEN "Exception"
                                          ELSE "HTTPStatusError"]
                /\ last_call' = Call("record_failure", engine_name, FALSE, 0)
                /\ run' = RunAfterFailedCall(run, engine_health', engine_name, now)
        /\ UNCHANGED <<now, last_request_time, nonThrottlerVars>>

InitClient ==
    /\ now = StartTime
    /\ engine_health = <<>>
    /\ last_request_time = 0
    /\ last_call = NoCall
    /\ run = <<>>
    /\ req = [r \in Requests |-> IdleRequest]
    /\ CacheUnused
    /\ RestUnused

NextClient ==
    \/ \E r \in Requests, engines \in EngineLists : SearchStart(r, engines)
    \/ \E r \in Requests : SearchSend(r)
    \/ \E r \in Requests, result \in HttpResults : SearchResponse(r, result)
    \/ Tick

SpecClient == InitClient /\ [][NextClient]_vars

\* The part of an engine's health that a recorded success or failure changes.
HealthCore(h) ==
    <<h.consecutive_failures, h.total_failures, h.last_failure_time, h.circuit_state>>

\* C6: a search rejected with CircuitOpenError for its primary engine records
\* neither a success nor a failure against that engine: none of that request's
\* steps changes the engine's consecutive_failures, total_failures,
\* last_failure_time or circuit state, whether the request is abandoned or goes
\* on with the remaining engines.
C6_RejectedRequestOnlySkips ==
    [][\A r \in Requests :
          (req'[r] # req[r] /\ req'[r].rejected)
          => LET e == req'[r].engine_name
             IN  HealthCore(engine_health'[e]) = HealthCore(engine_health[e])]_vars

\* C7: no request is sent with an engine in its engine list whose circuit is
\* OPEN and whose recovery_timeout has not elapsed.
C7_SentEnginesPassedThrottle ==
    [][\A r \in Requests :
          (req[r].pc # "in_flight" /\ req'[r].pc = "in_flight")
          => \A e \in SeqToSet(req'[r].sent) :
                 ~(/\ e \in DOMAIN engine_health'
                   /\ engine_health'[e].circuit_state = OPEN
                   /\ now - engine_health'[e].last_failure_time
                          < engine_health'[e].recovery_timeout)]_vars

\* --- recovery through the client ------------------------------------------

\* The clock of a run with searches every half minute is not advanced past
\* StartTime + RecoveryMaxElapsed.
RecoveryMaxElapsed == 90000

\* Half a minute passes.
HalfMinuteTick ==
    /\ now + 30000 <= StartTime + RecoveryMaxElapsed
    /\ now' = now + 30000
    /\ last_call' = NoCall
    /\ UNCHANGED <<engine_health, last_request_time, run, req, nonThrottlerVars>>

\* Searches with brave as the primary engine, half a minute apart or less.
NextClientRecovery ==
    \/ \E r \in Requests, engines \in {<<"brave">>, <<"brave", "bing">>} :
           SearchStart(r, engines)
    \/ \E r \in Requests : SearchSend(r)
    \/ \E r \in Requests, result \in HttpResults : SearchResponse(r, result)
    \/ HalfMinuteTick

SpecClientRecovery == InitClient /\ [][NextClientRecovery]_vars

\* C32: a search is rejected with CircuitOpenError for its primary engine
\* only while recovery_timeout has not yet elapsed since the engine's latest
\* failed HTTP call: from then on a search is admitted in HALF_OPEN, however
\* many searches were rejected before.
C32_RecoveryCountsFromFailedCall ==
    [][\A r \in Requests :
          (req[r].pc = "idle" /\ req'[r] # req[r] /\ req'[r].rejected)
          => LET e == req'[r].engine_name
             IN  now - run[e].failed_call_at < engine_health[e].recovery_timeout]_vars


\* ---------------------------------------------------------------------------
\* SemanticCache (semantic_cache.py): Redis as L1, Qdrant as L2.
\* Times are in milliseconds, similarity scores in hundredths.
\* ---------------------------------------------------------------------------

\* How far the clock advances during a cache run.
CacheMaxElapsed == 3600000

\* How many calls of the cache one run makes.
MaxCacheCalls == 3

CacheTickSteps == {1800000}

L1_TTL_SECONDS == 3600000
L2_TTL_SECONDS == 86400000
SIMILARITY_THRESHOLD == 80
MAX_CACHED_RESULTS == 20

None == "None"

\* Strings are sequences of characters, so that lower(), strip() and join()
\* do what they do in Python.
Whitespace == {" "}

LowerChar(c) ==
    CASE c = "A" -> "a"
      [] c = "B" -> "b"
      [] OTHER -> c

Lower(str) == [i \in 1..Len(str) |-> LowerChar(str[i])]

RECURSIVE LStrip(_)
LStrip(str) ==
    IF str # <<>> /\ Head(str) \in Whitespace THEN LStrip(Tail(str)) ELSE str

RECURSIVE RStrip(_)
RStrip(str) ==
    IF str # <<>> /\ str[Len(str)] \in Whitespace
    THEN RStrip(SubSeq(str, 1, Len(str) - 1))
    ELSE str

Strip(str) == RStrip(LStrip(str))

\* The spelling of the engine names, and their order under Python's string
\* comparison.
EngineName ==
    [brave |-> <<"b", "r", "a", "v", "e">>, bing |-> <<"b", "i", "n", "g">>]

EngineOrder == <<"bing", "brave">>

Rank(engine) == CHOOSE i \in 1..Len(EngineOrder) : EngineOrder[i] = engine

RECURSIVE Insert(_, _)
Insert(engine, sorted) ==
    IF sorted = <<>> \/ Rank(engine) < Rank(Head(sorted))
    THEN <<engine>> \o sorted
    ELSE <<Head(sorted)>> \o Insert(engine, Tail(sorted))

\* sorted(engines)
RECURSIVE Sorted(_)
Sorted(engines) ==
    IF engines = <<>> THEN <<>> ELSE Insert(Head(engines), Sorted(Tail(engines)))

\* ",".join(names)
RECURSIVE Join(_)
Join(names) ==
    IF names = <<>> THEN <<>>
    ELSE IF Len(names) = 1 THEN EngineName[names[1]]
    ELSE EngineName[names[1]] \o <<",">> \o Join(Tail(names))

\* hashlib.sha256(key).hexdigest()[:16], taken to be free of collisions: the
\* digest of a key stands for the key.
Sha256Hex16(key) == <<"sha256", key>>

\* _hash_query without the sorting of the engine list.
HashQuery_Unsorted(query, engines) ==
    LET key == Strip(Lower(query))
    IN  Sha256Hex16(IF engines # <<>>
                    THEN key \o <<"|">> \o Join(engines)
                    ELSE key)

\* SemanticCache._hash_query; an absent engine list is the empty one.
HashQuery(query, engines) ==
    LET key == Strip(Lower(query))
    IN  Sha256Hex16(IF engines # <<>>
                    THEN key \o <<"|">> \o Join(Sorted(engines))
                    ELSE key)

\* The Redis key and the Qdrant point id of a fingerprint.
RedisKey(query_hash) == <<"search:", query_hash>>

PointId(query_hash) == <<"id", query_hash>>

\* CacheEntry, as the constructor in store builds it.
CacheEntry(query, query_hash, results, engines, timestamp, ttl_seconds) ==
    [query |-> query, query_hash |-> query_hash, results |-> results,
     engines |-> engines, timestamp |-> timestamp, ttl_seconds |-> ttl_seconds,
     hit_count |-> 0]

\* CacheEntry.is_expired, with the entry's own TTL replaced by the L2 TTL of
\* the configuration.
IsExpired_ConfigTtl(entry, t) == t > entry.timestamp + L2_TTL_SECONDS

\* CacheEntry.is_expired at time t.
IsExpired(entry, t) == t > entry.timestamp + entry.ttl_seconds

\* CacheEntry.to_dict, and with it the JSON text of the dictionary.
ToDict(entry) ==
    [query |-> entry.query, query_hash |-> entry.query_hash,
     results |-> entry.results, engines |-> entry.engines,
     timestamp |-> entry.timestamp, ttl_seconds |-> entry.ttl_seconds,
     hit_count |-> entry.hit_count]

\* CacheEntry.from_dict
FromDict(data) ==
    [query |-> data.query, query_hash |-> data.query_hash,
     results |-> data.results, engines |-> data.engines,
     timestamp |-> data.timestamp, ttl_seconds |-> data.ttl_seconds,
     hit_count |-> data.hit_count]

\* Mutant: the whole list is kept.
Truncate_All(results, n) == results

\* results[:n]
Truncate(results, n) == SubSeq(results, 1, Min(Len(results), n))

\* --- Redis, Qdrant and the embedding service, as the cache sees them --------

\* A key is there until its expiry time.
RedisHas(db, key, t) == key \in DOMAIN db /\ t < db[key].expire_at

\* GET key
RedisGet(db, key) == db[key].value

\* SETEX that is not atomic: over an existing value it writes the new results
\* and leaves the rest of the old value.
RedisSetex_Torn(db, key, ttl, value, t) ==
    [k \in DOMAIN db \union {key} |->
        IF k = key
        THEN [value |-> IF key \in DOMAIN db
                        THEN [db[key].value EXCEPT !.results = value.results]
                        ELSE value,
              expire_at |-> t + ttl]
        ELSE db[k]]

\* SETEX key ttl value, at time t
RedisSetex(db, key, ttl, value, t) ==
    [k \in DOMAIN db \union {key} |->
        IF k = key THEN [value |-> value, expire_at |-> t + ttl] ELSE db[k]]

\* DEL that deletes nothing.
RedisDelete_Nothing(db, keys) == db

\* DEL keys
RedisDelete(db, keys) == [k \in DOMAIN db \ keys |-> db[k]]

\* What Redis keeps at time t.
RedisLive(db, t) == [k \in {j \in DOMAIN db : t < db[j].expire_at} |-> db[k]]

\* The queries of the model: "a", " A " and "b".
QA == <<"a">>
QB == <<" ", "A", " ">>
QC == <<"b">>

\* The embedding service maps a text to a vector; vectors are named, and
\* their cosine similarity is tabulated: " A " is close to "a", "b" is far
\* from both.
Embedding(text) ==
    CASE text = QA -> "va"
      [] text = QB -> "vA"
      [] OTHER -> "vb"

Cosine(u, v) ==
    IF u = v THEN 100
    ELSE IF {u, v} = {"va", "vA"} THEN 92
    ELSE 30

\* upsert of one point
QdrantUpsert(points, id, vector, payload) ==
    [p \in DOMAIN points \union {id} |->
        IF p = id THEN [vector |-> vector, payload |-> payload] ELSE points[p]]

\* query_points with limit=1: the ids of the points that can come back, the
\* nearest ones among those that score at least score_threshold.
QueryPoints(points, vector, score_threshold) ==
    {p \in DOMAIN points :
        /\ Cosine(points[p].vector, vector) >= score_threshold
        /\ \A q \in DOMAIN points :
               Cosine(points[q].vector, vector) <= Cosine(points[p].vector, vector)}

\* --- inputs ----------------------------------------------------------------

StoreQueries == {QA, QC}
GetQueries == {QB, QC}
StoreEngineLists == {<<"brave", "bing">>}
GetEngineLists == {<<"bing", "brave">>, <<"bing">>}
InvalidateEngineLists == {<<"bing", "brave">>}

\* A result list one longer than max_cached_results.
ResultLists == {[i \in 1..(MAX_CACHED_RESULTS + 1) |-> i]}

\* ttl_seconds of store: 0 for None, or half an hour.
TtlChoices == {0, 1800000}

NoGet == [called |-> FALSE]
NoStore == [called |-> FALSE]
NoInvalidate == [called |-> FALSE]

\* No get and no store in progress.
IdleRace == [olds |-> {}, get |-> [pc |-> "idle"], store |-> [pc |-> "idle"]]

CacheStats == [l1_hits |-> 0, l2_hits |-> 0, misses |-> 0, stores |-> 0, errors |-> 0]

\* The latest store, once another call or the clock has moved on.
Past(ls) == IF ls.called THEN [ls EXCEPT !.fresh = FALSE] ELSE ls

\* The faults a call can meet: a tier that is not connected is not called, and
\* neither is Qdrant when there is no vector to call it with.
Applicable(l1_fails, embedding_fails, l2_fails) ==
    /\ l1_fails => redis.on
    /\ embedding_fails => qdrant.on
    /\ l2_fails => (qdrant.on /\ ~embedding_fails)

\* --- SemanticCache.get -------------------------------------------------------

\* The return value of get, kept with its arguments, the time of return and
\* whether the Redis GET raised.
GetReturn(query, engines, entry, level, l1_error) ==
    [called |-> TRUE, query |-> query, engines |-> engines,
     entry |-> entry, level |-> level, at |-> now, l1_error |-> l1_error]

\* entry.hit_count += 1, on the copy that is returned
Hit(entry) == [entry EXCEPT !.hit_count = @ + 1]

\* get(query, engines); l1_fails: the Redis GET raises; embedding_fails: the
\* embedding service gives no vector; l2_fails: query_points raises.
Get(query, engines, l1_fails, embedding_fails, l2_fails) ==
    /\ calls < MaxCacheCalls
    /\ Applicable(l1_fails, embedding_fails, l2_fails)
    /\ LET query_hash == HashQuery(query, engines)
           key == RedisKey(query_hash)
           l1_error == redis.on /\ l1_fails
           l1_found == /\ redis.on /\ ~l1_fails
                       /\ RedisHas(redis.db, key, now)
                       /\ ~IsExpired(FromDict(RedisGet(redis.db, key)), now)
           l2_asked == qdrant.on /\ ~embedding_fails
           l2_error == l2_asked /\ (l2_fails \/ ~qdrant.collection)
           results == IF l2_asked /\ ~l2_error
                      THEN QueryPoints(qdrant.points, Embedding(query),
                                       SIMILARITY_THRESHOLD)
                      ELSE {}
           errors == stats.errors + (IF l1_error THEN 1 ELSE 0)
                                  + (IF l2_error THEN 1 ELSE 0)
           Miss == /\ stats' = [stats EXCEPT !.misses = @ + 1, !.errors = errors]
                   /\ last_get' = GetReturn(query, engines, None, "miss", l1_error)
       IN  IF l1_found
           THEN /\ stats' = [stats EXCEPT !.l1_hits = @ + 1]
                /\ last_get' = GetReturn(query, engines,
                                   Hit(FromDict(RedisGet(redis.db, key))), "l1",
                                   l1_error)
           ELSE IF results # {}
           THEN \E p \in results :
                    LET entry == FromDict(qdrant.points[p].payload)
                    IN  IF ~IsExpired(entry, now)
                        THEN /\ stats' = [stats EXCEPT !.l2_hits = @ + 1,
                                                       !.errors = errors]
                             /\ last_get' = GetReturn(query, engines, Hit(entry), "l2",
                                                      l1_error)
                        ELSE Miss
           ELSE Miss
    /\ calls' = calls + 1
    /\ last_store' = Past(last_store)
    /\ last_invalidate' = NoInvalidate
    /\ UNCHANGED <<now, nonCacheVars, redis, qdrant>>

\* --- SemanticCache.store -----------------------------------------------------

\* ttl_seconds or self.config.l1_ttl_seconds
EffectiveTtl(ttl_seconds) ==
    IF ttl_seconds # 0 THEN ttl_seconds ELSE L1_TTL_SECONDS

\* store(query, results, engines, ttl_seconds); l1_fails: SETEX raises;
\* embedding_fails: the embedding service gives no vector; l2_fails: upsert
\* raises.
Store(query, results, engines, ttl_seconds, l1_fails, embedding_fails, l2_fails) ==
    /\ calls < MaxCacheCalls
    /\ Applicable(l1_fails, embedding_fails, l2_fails)
    /\ LET query_hash == HashQuery(query, engines)
           ttl == EffectiveTtl(ttl_seconds)
           entry == CacheEntry(query, query_hash,
                               Truncate(results, MAX_CACHED_RESULTS),
                               engines, now, ttl)
           l1_error == redis.on /\ l1_fails
           l2_asked == qdrant.on /\ ~embedding_fails
           l2_error == l2_asked /\ (l2_fails \/ ~qdrant.collection)
           success == ~l1_error /\ ~l2_error
       IN  /\ redis' = IF redis.on /\ ~l1_error
                       THEN [redis EXCEPT !.db = RedisSetex(@, RedisKey(query_hash),
                                                            ttl, ToDict(entry), now)]
                       ELSE redis
           /\ qdrant' = IF l2_asked /\ ~l2_error
                        THEN [qdrant EXCEPT !.points =
                                 QdrantUpsert(@, PointId(query_hash),
                                              Embedding(query), ToDict(entry))]
                        ELSE qdrant
           /\ stats' = IF success THEN [stats EXCEPT !.stores = @ + 1] ELSE stats
           /\ last_store' = [called |-> TRUE, query |-> query, engines |-> engines,
                             results |-> results, ttl_seconds |-> ttl_seconds,
                             entry |-> entry, returned |-> success, intact |-> TRUE,
                             fresh |-> TRUE]
    /\ last_get' = NoGet
    /\ last_invalidate' = NoInvalidate
    /\ calls' = calls + 1
    /\ UNCHANGED <<now, nonCacheVars>>

\* --- SemanticCache.invalidate and clear ------------------------------------

\* The latest store, marked once its fingerprint has been invalidated.
Dropped(ls, query_hash) ==
    IF ls.called /\ ls.entry.query_hash = query_hash
    THEN [ls EXCEPT !.intact = FALSE]
    ELSE ls

\* invalidate(query, engines); l1_fails: DEL raises.
Invalidate(query, engines, l1_fails) ==
    LET query_hash == HashQuery(query, engines)
    IN  /\ calls < MaxCacheCalls
        /\ l1_fails => redis.on
        /\ redis' = IF redis.on /\ ~l1_fails
                    THEN [redis EXCEPT !.db = RedisDelete(@, {RedisKey(query_hash)})]
                    ELSE redis
        /\ last_store' = Dropped(Past(last_store), query_hash)
        /\ last_invalidate' = [called |-> TRUE, query_hash |-> query_hash,
                               returned |-> ~(redis.on /\ l1_fails)]
        /\ last_get' = NoGet
        /\ calls' = calls + 1
        /\ UNCHANGED <<now, nonCacheVars, qdrant, stats>>

\* clear(); l1_fails: KEYS or DEL raises; l2: "ok", or which of
\* delete_collection and create_collection raises.
Clear(l1_fails, l2) ==
    /\ calls < MaxCacheCalls
    /\ l1_fails => redis.on
    /\ l2 # "ok" => (qdrant.on /\ qdrant.collection)
    /\ redis' = IF redis.on /\ ~l1_fails
                THEN [redis EXCEPT !.db = <<>>]
                ELSE redis
    /\ qdrant' = IF qdrant.on /\ qdrant.collection /\ l2 = "ok"
                 THEN [qdrant EXCEPT !.points = <<>>]
                 ELSE IF qdrant.on /\ qdrant.collection /\ l2 = "create_fails"
                 THEN [qdrant EXCEPT !.points = <<>>, !.collection = FALSE]
                 ELSE qdrant
    /\ last_store' = IF last_store.called
                     THEN [last_store EXCEPT !.intact = FALSE, !.fresh = FALSE]
                     ELSE last_store
    /\ last_get' = NoGet
    /\ last_invalidate' = NoInvalidate
    /\ calls' = calls + 1
    /\ UNCHANGED <<now, nonCacheVars, stats>>

\* Time passes; Redis drops the keys whose expiry time has come.
CacheTick ==
    \E d \in CacheTickSteps :
        /\ now + d <= StartTime + CacheMaxElapsed
        /\ now' = now + d
        /\ redis' = [redis EXCEPT !.db = RedisLive(@, now + d)]
        /\ last_get' = NoGet
        /\ last_store' = Past(last_store)
        /\ last_invalidate' = NoInvalidate
        /\ UNCHANGED <<nonCacheVars, qdrant, stats, calls>>

\* The cache after initialize(): each tier is connected or was given up.
InitCache ==
    /\ now = StartTime
    /\ engine_health = <<>>
    /\ last_request_time = 0
    /\ last_call = NoCall
    /\ run = <<>>
    /\ req = <<>>
    /\ \E r \in BOOLEAN : redis = [on |-> r, db |-> <<>>]
    /\ \E q \in BOOLEAN : qdrant = [on |-> q, collection |-> q, points |-> <<>>]
    /\ stats = CacheStats
    /\ last_get = NoGet
    /\ last_store = NoStore
    /\ last_invalidate = NoInvalidate
    /\ race = IdleRace
    /\ calls = 0
    /\ RestUnused

NextCache ==
    \/ \E query \in GetQueries, engines \in GetEngineLists,
          l1_fails \in BOOLEAN, embedding_fails \in BOOLEAN, l2_fails \in BOOLEAN :
           Get(query, engines, l1_fails, embedding_fails, l2_fails)
    \/ \E query \in StoreQueries, results \in ResultLists,
          engines \in StoreEngineLists, ttl_seconds \in TtlChoices,
          l1_fails \in BOOLEAN, embedding_fails \in BOOLEAN, l2_fails \in BOOLEAN :
           Store(query, results, engines, ttl_seconds,
                 l1_fails, embedding_fails, l2_fails)
    \/ \E query \in GetQueries, engines \in InvalidateEngineLists,
          l1_fails \in BOOLEAN :
           Invalidate(query, engines, l1_fails)
    \/ \E l1_fails \in BOOLEAN, l2 \in {"ok", "delete_fails", "create_fails"} :
           Clear(l1_fails, l2)
    \/ CacheTick

SpecCache == InitCache /\ [][NextCache]_vars

\* --- claims about the cache ---------------------------------------------------

\* An entry is held by L1 (by L2) when the tier has it under the entry's
\* fingerprint.
InL1(db, entry, t) ==
    /\ RedisHas(db, RedisKey(entry.query_hash), t)
    /\ RedisGet(db, RedisKey(entry.query_hash)) = ToDict(entry)

InL2(points, entry) ==
    /\ PointId(entry.query_hash) \in DOMAIN points
    /\ points[PointId(entry.query_hash)].payload = ToDict(entry)

\* Two queries that differ at most in letter case and surrounding whitespace.
SameUpToCaseAndSpace(q1, q2) == Lower(Strip(q1)) = Lower(Strip(q2))

\* Two engine lists that are permutations of each other.
IsPermutation(a, b) ==
    /\ Len(a) = Len(b)
    /\ \A e \in SeqToSet(a) \union SeqToSet(b) :
           Cardinality({i \in 1..Len(a) : a[i] = e})
               = Cardinality({i \in 1..Len(b) : b[i] = e})

\* C8: an entry that get returns, from L1 or from L2, is not older than its
\* ttl_seconds at the time of the return.
C8_ReturnedEntriesAreFresh ==
    (last_get.called /\ last_get.level \in {"l1", "l2"})
    => last_get.at - last_get.entry.timestamp <= last_get.entry.ttl_seconds

\* get returns an entry from L2 at the very end of its TTL, when Redis has
\* already dropped it.
C8_Witness ==
    /\ last_get.called
    /\ last_get.level = "l2"
    /\ last_get.at - last_get.entry.timestamp = last_get.entry.ttl_seconds

\* C9: after a store that returned success with L1 connected, a get before the
\* TTL has elapsed, of a query that differs only in case and surrounding
\* whitespace and with a permutation of the engine list, whose Redis GET does
\* not raise, returns level "l1" and the stored results truncated to
\* max_cached_results, unless the fingerprint was invalidated or the cache
\* cleared in between.
C9_L1RoundTrip ==
    (/\ last_get.called
     /\ last_store.called
     /\ last_store.returned
     /\ last_store.intact
     /\ redis.on
     /\ ~last_get.l1_error
     /\ SameUpToCaseAndSpace(last_get.query, last_store.query)
     /\ IsPermutation(last_get.engines, last_store.engines)
     /\ last_get.at - last_store.entry.timestamp
            < EffectiveTtl(last_store.ttl_seconds))
    => /\ last_get.level = "l1"
       /\ last_get.entry.results = Truncate(last_store.results, MAX_CACHED_RESULTS)
       /\ Len(last_get.entry.results) <= MAX_CACHED_RESULTS

\* An L1 hit some time after the store, for another spelling of the query and
\* another order of the engines, with results that were truncated.
C9_Witness ==
    /\ last_get.called
    /\ last_store.called /\ last_store.returned /\ last_store.intact
    /\ last_get.level = "l1"
    /\ last_get.query # last_store.query
    /\ last_get.engines # last_store.engines
    /\ last_get.at > last_store.entry.timestamp
    /\ last_get.entry.results # last_store.results

\* C10: with both tiers connected, a store that returns success leaves the
\* entry in L1 and in L2, and a store that returns failure does not count in
\* stats.stores.
C10_StoreReportsPartialWrite ==
    [][(/\ calls' = calls + 1
        /\ last_store'.called /\ last_store'.fresh
        /\ redis.on /\ qdrant.on)
       => LET entry == last_store'.entry
          IN  /\ last_store'.returned
                     => /\ InL1(redis'.db, entry, now')
                        /\ InL2(qdrant'.points, entry)
              /\ ~last_store'.returned => stats'.stores = stats.stores]_vars

TtlMaxElapsed == 5400000

\* time.time() advances; Redis drops the keys whose time is up.
TtlTick ==
    \E d \in CacheTickSteps :
        /\ now + d <= StartTime + TtlMaxElapsed
        /\ now' = now + d
        /\ redis' = [redis EXCEPT !.db = RedisLive(@, now + d)]
        /\ last_get' = NoGet
        /\ last_store' = Past(last_store)
        /\ last_invalidate' = NoInvalidate
        /\ UNCHANGED <<nonCacheVars, qdrant, stats, calls>>

\* Stores and gets over an hour and a half.
NextCacheTtl ==
    \/ \E query \in GetQueries, engines \in GetEngineLists,
          l1_fails \in BOOLEAN, embedding_fails \in BOOLEAN, l2_fails \in BOOLEAN :
           Get(query, engines, l1_fails, embedding_fails, l2_fails)
    \/ \E query \in StoreQueries, results \in ResultLists,
          engines \in StoreEngineLists, ttl_seconds \in TtlChoices,
          l1_fails \in BOOLEAN, embedding_fails \in BOOLEAN, l2_fails \in BOOLEAN :
           Store(query, results, engines, ttl_seconds,
                 l1_fails, embedding_fails, l2_fails)
    \/ TtlTick

SpecCacheTtl == InitCache /\ [][NextCacheTtl]_vars

\* The points query_points can return for the query whose entry was stored
\* without a ttl_seconds of its own and is not older than the L2 TTL.
YoungDefaultPoints(query) ==
    {p \in QueryPoints(qdrant.points, Embedding(query), SIMILARITY_THRESHOLD) :
        /\ qdrant.points[p].payload.ttl_seconds = EffectiveTtl(0)
        /\ now - qdrant.points[p].payload.timestamp <= L2_TTL_SECONDS}

\* C29: L2 keeps an entry for its own TTL of 86400 s. A get that meets no
\* fault and finds, for a similar query, only entries stored with the default
\* configuration and not older than 86400 s returns a hit (at "l2" when L1
\* has lost its copy); an entry older than that is not returned at "l2".
C29_L2KeepsEntriesForItsTtl ==
    [][\A query \in GetQueries, engines \in GetEngineLists :
          (Get(query, engines, FALSE, FALSE, FALSE) /\ qdrant.on)
          => LET found == QueryPoints(qdrant.points, Embedding(query),
                                      SIMILARITY_THRESHOLD)
             IN  /\ (found # {} /\ found = YoungDefaultPoints(query))
                        => last_get'.level \in {"l1", "l2"}
                 /\ last_get'.level = "l2"
                        => now - last_get'.entry.timestamp <= L2_TTL_SECONDS]_vars

\* --- the fingerprint --------------------------------------------------------

\* A query that contains the separator of _hash_query followed by the name
\* of an engine.
QASepBing == <<"a", "|", "b", "i", "n", "g">>

FingerprintQueries == {QA, QB, QASepBing}

\* No engines, one engine, one engine twice, two engines in both orders.
FingerprintEngineLists ==
    {<<>>, <<"bing">>, <<"bing", "bing">>, <<"brave", "bing">>, <<"bing", "brave">>}

\* The result lists that are stored: one longer than max_cached_results and
\* one shorter.
StoredResultLists == ResultLists \union {<<7, 8>>}

\* Stores and gets of these queries and engine lists, with no fault.
NextFingerprint ==
    \/ \E query \in FingerprintQueries, engines \in FingerprintEngineLists,
          results \in StoredResultLists :
           Store(query, results, engines, 0, FALSE, FALSE, FALSE)
    \/ \E query \in FingerprintQueries, engines \in FingerprintEngineLists :
           Get(query, engines, FALSE, FALSE, FALSE)

SpecFingerprint == InitCache /\ [][NextFingerprint]_vars

\* The engines of a list, as a set.
EngineSet(engines) == {engines[i] : i \in DOMAIN engines}

\* C30: the query and engines of a get have the fingerprint of the entry the
\* latest store made exactly when the two queries are equal once lower-cased
\* and trimmed and the two engine lists hold the same engines.
C30_FingerprintSeparatesPairs ==
    (last_store.called /\ last_get.called)
        => ((HashQuery(last_get.query, last_get.engines)
                 = last_store.entry.query_hash)
            <=> (/\ Strip(Lower(last_get.query)) = Strip(Lower(last_store.query))
                 /\ EngineSet(last_get.engines) = EngineSet(last_store.engines)))

\* ---------------------------------------------------------------------------
\* A get and a store of one fingerprint that run concurrently. Each is taken
\* from one await to the next: the Redis command, the embedding request. The
\* Qdrant client is synchronous, so what follows the embedding runs with it.
\* ---------------------------------------------------------------------------

\* store("a", ..., [brave, bing]) and get(" A ", [bing, brave])
RaceQuery == QA
RaceEngines == <<"brave", "bing">>
RaceResults == <<7>>
RaceGetQuery == QB
RaceGetEngines == <<"bing", "brave">>

RaceIdle == race.get.pc = "idle" /\ race.store.pc = "idle"

\* The entries the tiers hold.
TierEntries ==
    {FromDict(redis.db[k].value) : k \in DOMAIN redis.db}
        \union {FromDict(qdrant.points[p].payload) : p \in DOMAIN qdrant.points}

\* The entries that were there when the first of the two calls began.
OldsAtStart == IF RaceIdle THEN TierEntries ELSE race.olds

\* get returns.
GetDone(g, entry, level) ==
    [g EXCEPT !.pc = "done", !.entry = entry, !.level = level, !.at = now]

\* get is called: the fingerprint is computed and the first await is reached.
RaceGetStart(query, engines) ==
    /\ race.get.pc = "idle"
    /\ LET g == [pc |-> "idle", query |-> query, engines |-> engines,
                 query_hash |-> HashQuery(query, engines),
                 cached |-> <<>>, l1_error |-> FALSE,
                 entry |-> None, level |-> "", at |-> 0]
       IN  IF redis.on
           THEN /\ race' = [race EXCEPT !.olds = OldsAtStart,
                                        !.get = [g EXCEPT !.pc = "l1_read"]]
                /\ UNCHANGED stats
           ELSE IF qdrant.on
           THEN /\ race' = [race EXCEPT !.olds = OldsAtStart,
                                        !.get = [g EXCEPT !.pc = "l2"]]
                /\ UNCHANGED stats
           ELSE /\ race' = [race EXCEPT !.olds = OldsAtStart,
                                        !.get = GetDone(g, None, "miss")]
                /\ stats' = [stats EXCEPT !.misses = @ + 1]
    /\ UNCHANGED <<now, nonRaceVars, redis, qdrant, last_get, last_store,
                   last_invalidate, calls>>

\* Redis serves the GET, or the command fails.
RaceGetL1Read(l1_fails) ==
    /\ race.get.pc = "l1_read"
    /\ LET key == RedisKey(race.get.query_hash)
       IN  race' = [race EXCEPT
                       !.get.pc = "l1_check",
                       !.get.l1_error = l1_fails,
                       !.get.cached = IF ~l1_fails /\ RedisHas(redis.db, key, now)
                                      THEN <<RedisGet(redis.db, key)>>
                                      ELSE <<>>]
    /\ UNCHANGED <<now, nonRaceVars, cacheVars>>

\* A get that skips the L1 answer.
L1Found_Never(g, t) == FALSE

\* The GET gave an entry and the entry is not expired.
L1Found(g, t) == g.cached # <<>> /\ ~IsExpired(FromDict(g.cached[1]), t)

\* get resumes after the GET: an unexpired entry is returned, anything else
\* goes on to L2.
RaceGetL1Check ==
    /\ race.get.pc = "l1_check"
    /\ LET g == race.get
           found == L1Found(g, now)
           errors == stats.errors + (IF g.l1_error THEN 1 ELSE 0)
       IN  IF found
           THEN /\ race' = [race EXCEPT
                               !.get = GetDone(g, Hit(FromDict(g.cached[1])), "l1")]
                /\ stats' = [stats EXCEPT !.l1_hits = @ + 1]
           ELSE IF qdrant.on
           THEN /\ race' = [race EXCEPT !.get.pc = "l2"]
                /\ stats' = [stats EXCEPT !.errors = errors]
           ELSE /\ race' = [race EXCEPT !.get = GetDone(g, None, "miss")]
                /\ stats' = [stats EXCEPT !.errors = errors, !.misses = @ + 1]
    /\ UNCHANGED <<now, nonRaceVars, redis, qdrant, last_get, last_store,
                   last_invalidate, calls>>

\* The embedding request of get ends: query_points, the expiry test and the
\* return follow without another await.
RaceGetL2(embedding_fails, l2_fails) ==
    /\ race.get.pc = "l2"
    /\ l2_fails => ~embedding_fails
    /\ LET g == race.get
           l2_error == ~embedding_fails /\ (l2_fails \/ ~qdrant.collection)
           results == IF ~embedding_fails /\ ~l2_error
                      THEN QueryPoints(qdrant.points, Embedding(g.query),
                                       SIMILARITY_THRESHOLD)
                      ELSE {}
           errors == stats.errors + (IF l2_error THEN 1 ELSE 0)
           Miss == /\ race' = [race EXCEPT !.get = GetDone(g, None, "miss")]
                   /\ stats' = [stats EXCEPT !.misses = @ + 1, !.errors = errors]
       IN  IF results # {}
           THEN \E p \in results :
                    LET entry == FromDict(qdrant.points[p].payload)
                    IN  IF ~IsExpired(entry, now)
                        THEN /\ race' = [race EXCEPT
                                            !.get = GetDone(g, Hit(entry), "l2")]
                             /\ stats' = [stats EXCEPT !.l2_hits = @ + 1]
                        ELSE Miss
           ELSE Miss
    /\ UNCHANGED <<now, nonRaceVars, redis, qdrant, last_get, last_store,
                   last_invalidate, calls>>

\* store returns: a store that met no error counts in stats.stores.
StoreDone(st, success) == [st EXCEPT !.pc = "done", !.success = success]

StoreCounted(success) ==
    IF success THEN [stats EXCEPT !.stores = @ + 1] ELSE stats

\* store is called: the entry is built and the first await is reached.
RaceStoreStart(query, results, engines, ttl_seconds) ==
    /\ race.store.pc = "idle"
    /\ LET query_hash == HashQuery(query, engines)
           ttl == EffectiveTtl(ttl_seconds)
           st == [pc |-> "idle", query |-> query, ttl |-> ttl, success |-> TRUE,
                  entry |-> CacheEntry(query, query_hash,
                                       Truncate(results, MAX_CACHED_RESULTS),
                                       engines, now, ttl)]
       IN  IF redis.on
           THEN /\ race' = [race EXCEPT !.olds = OldsAtStart,
                                        !.store = [st EXCEPT !.pc = "l1"]]
                /\ UNCHANGED stats
           ELSE IF qdrant.on
           THEN /\ race' = [race EXCEPT !.olds = OldsAtStart,
                                        !.store = [st EXCEPT !.pc = "l2"]]
                /\ UNCHANGED stats
           ELSE /\ race' = [race EXCEPT !.olds = OldsAtStart,
                                        !.store = StoreDone(st, TRUE)]
                /\ stats' = StoreCounted(TRUE)
    /\ UNCHANGED <<now, nonRaceVars, redis, qdrant, last_get, last_store,
                   last_invalidate, calls>>

\* Redis serves the SETEX, or the command fails; store goes on to L2.
RaceStoreL1(l1_fails) ==
    /\ race.store.pc = "l1"
    /\ LET st == race.store
           success == ~l1_fails
       IN  /\ redis' = IF l1_fails THEN redis
                       ELSE [redis EXCEPT !.db =
                                RedisSetex(@, RedisKey(st.entry.query_hash),
                                           st.ttl, ToDict(st.entry), now)]
           /\ IF qdrant.on
              THEN /\ race' = [race EXCEPT !.store.pc = "l2",
                                           !.store.success = success]
                   /\ UNCHANGED stats
              ELSE /\ race' = [race EXCEPT !.store = StoreDone(st, success)]
                   /\ stats' = StoreCounted(success)
    /\ UNCHANGED <<now, nonRaceVars, qdrant, last_get, last_store,
                   last_invalidate, calls>>

\* The embedding request of store ends: the upsert and the return follow
\* without another await.
RaceStoreL2(embedding_fails, l2_fails) ==
    /\ race.store.pc = "l2"
    /\ l2_fails => ~embedding_fails
    /\ LET st == race.store
           l2_error == ~embedding_fails /\ (l2_fails \/ ~qdrant.collection)
           success == st.success /\ ~l2_error
       IN  /\ qdrant' = IF ~embedding_fails /\ ~l2_error
                        THEN [qdrant EXCEPT !.points =
                                 QdrantUpsert(@, PointId(st.entry.query_hash),
                                              Embedding(st.query), ToDict(st.entry))]
                        ELSE qdrant
           /\ race' = [race EXCEPT !.store = StoreDone(st, success)]
           /\ stats' = StoreCounted(success)
    /\ UNCHANGED <<now, nonRaceVars, redis, last_get, last_store,
                   last_invalidate, calls>>

\* The task that awaits store is cancelled while store is suspended at the
\* SETEX or at the embedding request: CancelledError is raised at that await,
\* the "except Exception" blocks of store do not catch it, and store ends
\* there with what it had written.
RaceStoreCancel ==
    /\ race.store.pc \in {"l1", "l2"}
    /\ race' = [race EXCEPT !.store.pc = "cancelled",
                            !.store.success = FALSE]
    /\ UNCHANGED <<now, nonRaceVars, cacheVars>>

\* Time passes while the two calls are in progress.
RaceTick ==
    /\ CacheTick
    /\ UNCHANGED race

\* Earlier, completed stores of the fingerprint, then the two calls.
NextCacheRace ==
    \/ \E ttl_seconds \in TtlChoices, results \in ResultLists,
          l1_fails \in BOOLEAN, embedding_fails \in BOOLEAN, l2_fails \in BOOLEAN :
           /\ RaceIdle
           /\ Store(RaceQuery, results, RaceEngines, ttl_seconds,
                    l1_fails, embedding_fails, l2_fails)
    \/ RaceGetStart(RaceGetQuery, RaceGetEngines)
    \/ \E l1_fails \in BOOLEAN : RaceGetL1Read(l1_fails)
    \/ RaceGetL1Check
    \/ \E embedding_fails \in BOOLEAN, l2_fails \in BOOLEAN :
           RaceGetL2(embedding_fails, l2_fails)
    \/ \E ttl_seconds \in TtlChoices :
           RaceStoreStart(RaceQuery, RaceResults, RaceEngines, ttl_seconds)
    \/ \E l1_fails \in BOOLEAN : RaceStoreL1(l1_fails)
    \/ \E embedding_fails \in BOOLEAN, l2_fails \in BOOLEAN :
           RaceStoreL2(embedding_fails, l2_fails)
    \/ RaceStoreCancel
    \/ RaceTick

SpecCacheRace == InitCache /\ [][NextCacheRace]_vars

\* The entry of the store in progress or done.
NewEntries == IF race.store.pc = "idle" THEN {} ELSE {race.store.entry}

\* C12: a get that runs concurrently with a store of its fingerprint returns a
\* miss or, with its hit counted, one whole entry: one the tiers held when the
\* two calls began or the one the store has built; and the entry it returns is
\* not older than its ttl_seconds at the return.
C12_RacingGetReturnsWholeEntry ==
    (race.get.pc = "done" /\ race.get.level # "miss")
    => /\ race.get.level \in {"l1", "l2"}
       /\ \E e \in race.olds \union NewEntries : race.get.entry = Hit(e)
       /\ race.get.at - race.get.entry.timestamp <= race.get.entry.ttl_seconds

\* get has returned the entry of a store that is still on its way to L2,
\* while the tiers held an older entry of the fingerprint.
C12_Witness ==
    /\ race.get.pc = "done"
    /\ race.store.pc = "l2"
    /\ race.olds # {}
    /\ race.get.level = "l1"
    /\ race.get.entry = Hit(race.store.entry)
    /\ race.get.query_hash = race.store.entry.query_hash

\* The entry of the store in progress or ended is in L1, in L2.
StoreInL1 == InL1(redis.db, race.store.entry, now)

StoreInL2 == InL2(qdrant.points, race.store.entry)

\* C26: a store that was cancelled at one of its awaits has left nothing of
\* its entry in the cache, or the entry in every tier that is configured.
C26_CancelledStoreAllOrNothing ==
    race.store.pc = "cancelled"
        => \/ ~StoreInL1 /\ ~StoreInL2
           \/ (redis.on => StoreInL1) /\ (qdrant.on => StoreInL2)

\* stored holds the first max_cached_results elements of given, in their
\* order, and all of them when given is not longer than that.
IsCachedPrefix(stored, given) ==
    /\ Len(stored) = (IF Len(given) <= 20 THEN Len(given) ELSE 20)
    /\ \A i \in 1..Len(stored) : stored[i] = given[i]

\* C31: no entry of either tier holds more than max_cached_results (20)
\* results, and what a store has just written to a tier holds the first 20
\* elements of the list it was given, in their order.
C31_StoredResultsAreTruncated ==
    /\ \A k \in DOMAIN redis.db : Len(redis.db[k].value.results) <= 20
    /\ \A p \in DOMAIN qdrant.points :
          Len(qdrant.points[p].payload.results) <= 20
    /\ (last_store.called /\ last_store.fresh)
       => LET query_hash == HashQuery(last_store.query, last_store.engines)
          IN  /\ redis.on
                    => /\ RedisKey(query_hash) \in DOMAIN redis.db
                       /\ IsCachedPrefix(
                              redis.db[RedisKey(query_hash)].value.results,
                              last_store.results)
              /\ qdrant.on
                    => /\ PointId(query_hash) \in DOMAIN qdrant.points
                       /\ IsCachedPrefix(
                              qdrant.points[PointId(query_hash)].payload.results,
                              last_store.results)

\* A store was given 21 results and both tiers hold the entry with 20.
C31_Witness ==
    /\ last_store.called /\ last_store.fresh
    /\ Len(last_store.results) = 21
    /\ redis.on /\ qdrant.on
    /\ \E k \in DOMAIN redis.db : Len(redis.db[k].value.results) = 20
    /\ \E p \in DOMAIN qdrant.points :
          Len(qdrant.points[p].payload.results) = 20

\* C34: get asks Redis first. The GET answers with what Redis holds under the
\* fingerprint unless the command fails; an unexpired answer is returned at
\* level "l1" by the step that resumes get, with no embedding request in
\* between; and the embedding request is reached only with Redis unavailable
\* or after a GET that failed, found nothing or found an expired entry.
C34_L1AnswersBeforeL2 ==
    [][(race'.get # race.get) =>
          LET g == race.get
              h == race'.get
              key == RedisKey(g.query_hash)
          IN  /\ (g.pc = "idle" /\ redis.on) => h.pc = "l1_read"
              /\ (g.pc = "l1_read" /\ ~h.l1_error)
                    => h.cached = (IF RedisHas(redis.db, key, now)
                                   THEN <<RedisGet(redis.db, key)>>
                                   ELSE <<>>)
              /\ (g.pc = "l1_check" /\ g.cached # <<>>
                      /\ ~IsExpired(FromDict(g.cached[1]), now))
                    => /\ h.pc = "done"
                       /\ h.level = "l1"
                       /\ h.entry = Hit(FromDict(g.cached[1]))
              /\ h.pc = "l2"
                    => \/ g.pc = "idle" /\ ~redis.on
                       \/ /\ g.pc = "l1_check"
                          /\ \/ g.l1_error
                             \/ g.cached = <<>>
                             \/ IsExpired(FromDict(g.cached[1]), now)]_vars

\* A get that found an unexpired entry in Redis has returned it at level "l1"
\* while Qdrant was available and held a point a search would have matched.
C34_Witness ==
    /\ race.get.pc = "done"
    /\ race.get.level = "l1"
    /\ race.get.cached # <<>>
    /\ qdrant.on
    /\ QueryPoints(qdrant.points, Embedding(race.get.query),
                   SIMILARITY_THRESHOLD) # {}

\* C39: the entry a get returns, at l1 or at l2, was stored for the set of
\* engines the get names.
C39_ReturnedEntryHasTheGetsEngines ==
    (last_get.called /\ last_get.level \in {"l1", "l2"})
        => EngineSet(last_get.entry.engines) = EngineSet(last_get.engines)

(***************************************************************************)
(* ResultFusion (result_fusion.py).                                        *)
(* Weights and original scores are integers in tenths (1.5 is 15); every   *)
(* fusion score is an integer numerator over a denominator that is the     *)
(* same for all results of one call, so that comparing numerators is       *)
(* comparing the scores.                                                   *)
(***************************************************************************)

\* The longest result list an engine hands to fuse.
MaxFusionResults == 2

RRF_K == 60

\* max_rank of _calculate_borda
BORDA_MAX_RANK == 100

DEFAULT_WEIGHTS == [brave |-> 15, bing |-> 12, reddit |-> 12]

\* self.engine_weights.get(engine, 1.0)
EngineWeight(engine_weights, engine) ==
    IF engine \in DOMAIN engine_weights THEN engine_weights[engine] ELSE 10

\* URLs of the inputs, as Python strings: "https://www.a/", "http://A" and
\* "https://b".
UrlA1 == <<"h", "t", "t", "p", "s", ":", "/", "/", "w", "w", "w", ".", "a", "/">>
UrlA2 == <<"h", "t", "t", "p", ":", "/", "/", "A">>
UrlB == <<"h", "t", "t", "p", "s", ":", "/", "/", "b">>

\* The prefixes _default_url_normalizer tries, in its order.
UrlPrefixes ==
    << <<"h", "t", "t", "p", "s", ":", "/", "/", "w", "w", "w", ".">>,
       <<"h", "t", "t", "p", ":", "/", "/", "w", "w", "w", ".">>,
       <<"h", "t", "t", "p", "s", ":", "/", "/">>,
       <<"h", "t", "t", "p", ":", "/", "/">> >>

\* str.startswith(prefix)
StartsWith(str, prefix) ==
    Len(str) >= Len(prefix) /\ SubSeq(str, 1, Len(prefix)) = prefix

\* str.rstrip("/")
RECURSIVE RStripSlash(_)
RStripSlash(str) ==
    IF str # <<>> /\ str[Len(str)] = "/"
    THEN RStripSlash(SubSeq(str, 1, Len(str) - 1))
    ELSE str

\* The loop over the prefixes: the first that matches is cut off.
RECURSIVE StripPrefix(_, _)
StripPrefix(url, prefixes) ==
    IF prefixes = <<>> THEN url
    ELSE IF StartsWith(url, Head(prefixes))
    THEN SubSeq(url, Len(Head(prefixes)) + 1, Len(url))
    ELSE StripPrefix(url, Tail(prefixes))

DefaultUrlNormalizer(url) == StripPrefix(RStripSlash(Lower(url)), UrlPrefixes)

\* dict[key] = value
Put(dict, key, value) ==
    [k \in DOMAIN dict \union {key} |-> IF k = key THEN value ELSE dict[k]]

\* FusedResult(url=..., title=..., content=..., engines=[], metadata={})
FusedResult(url, title, content) ==
    [url |-> url, title |-> title, content |-> content, engines |-> <<>>,
     rrf_score |-> 0, weighted_score |-> 0, borda_score |-> 0,
     final_score |-> 0, original_scores |-> <<>>, original_ranks |-> <<>>]

\* What a lookup finds in a dict that has lost its keys.
GroupIndex_NeverFound(url_groups, norm_url) == 0

\* url_groups is a dict, which keeps its keys in the order of their insertion:
\* a sequence of [norm_url, fused].
GroupIndex(url_groups, norm_url) ==
    IF \E i \in 1..Len(url_groups) : url_groups[i].norm_url = norm_url
    THEN CHOOSE i \in 1..Len(url_groups) : url_groups[i].norm_url = norm_url
    ELSE 0

\* The body of the inner loop of fuse for one result of one engine.
AddResult(url_groups, engine, rank, result) ==
    IF result.url = <<>> THEN url_groups
    ELSE
      LET norm_url == DefaultUrlNormalizer(result.url)
          found == GroupIndex(url_groups, norm_url)
          groups ==
              IF found = 0
              THEN Append(url_groups,
                          [norm_url |-> norm_url,
                           fused |-> FusedResult(result.url, result.title,
                                                 result.content)])
              ELSE url_groups
          i == IF found = 0 THEN Len(groups) ELSE found
          fused == groups[i].fused
      IN  [groups EXCEPT ![i].fused =
              [fused EXCEPT
                 !.engines = Append(@, engine),
                 !.original_ranks = Put(@, engine, rank),
                 !.original_scores = Put(@, engine, result.score),
                 !.title = IF Len(result.title) > Len(@)
                           THEN result.title ELSE @,
                 !.content = IF Len(result.content) > Len(@)
                             THEN result.content ELSE @]]

\* for rank, result in enumerate(results, start=1)
RECURSIVE AddResults(_, _, _, _)
AddResults(url_groups, engine, results, rank) ==
    IF rank > Len(results) THEN url_groups
    ELSE AddResults(AddResult(url_groups, engine, rank, results[rank]),
                    engine, results, rank + 1)

\* for engine, results in results_by_engine.items()
RECURSIVE GroupByUrl(_, _)
GroupByUrl(url_groups, results_by_engine) ==
    IF results_by_engine = <<>> THEN url_groups
    ELSE GroupByUrl(AddResults(url_groups, Head(results_by_engine).engine,
                               Head(results_by_engine).results, 1),
                    Tail(results_by_engine))

RECURSIVE Gcd(_, _)
Gcd(a, b) == IF b = 0 THEN a ELSE Gcd(b, a % b)

Lcm(a, b) == (a \div Gcd(a, b)) * b

RECURSIVE LcmOf(_)
LcmOf(S) ==
    IF S = {} THEN 1
    ELSE LET x == CHOOSE y \in S : TRUE IN Lcm(x, LcmOf(S \ {x}))

\* The denominators of one call: every rank of the call divides RankLcm and
\* every sum of weights the call can form divides WeightLcm.
MaxRank(results_by_engine) ==
    LET lens == {Len(results_by_engine[i].results) :
                    i \in 1..Len(results_by_engine)}
    IN  IF lens = {} THEN 0 ELSE CHOOSE n \in lens : \A m \in lens : m <= n

RankLcm(results_by_engine) ==
    LcmOf({RRF_K + r : r \in 1..MaxRank(results_by_engine)})

RECURSIVE SumWeights(_, _)
SumWeights(engine_weights, S) ==
    IF S = {} THEN 0
    ELSE LET e == CHOOSE x \in S : TRUE
         IN  EngineWeight(engine_weights, e)
                 + SumWeights(engine_weights, S \ {e})

WeightLcm(engine_weights, results_by_engine) ==
    LET engines == {results_by_engine[i].engine :
                       i \in 1..Len(results_by_engine)}
    IN  LcmOf({SumWeights(engine_weights, S) : S \in SUBSET engines \ {{}}})

\* _calculate_rrf, in units of 1 / (10 * rank_lcm)
RECURSIVE RrfSum(_, _, _, _)
RrfSum(engine_weights, original_ranks, S, rank_lcm) ==
    IF S = {} THEN 0
    ELSE LET engine == CHOOSE x \in S : TRUE
         IN  EngineWeight(engine_weights, engine)
                   * (rank_lcm \div (RRF_K + original_ranks[engine]))
               + RrfSum(engine_weights, original_ranks, S \ {engine}, rank_lcm)

\* An rrf score that takes every rank for the first.
CalculateRrf_RankOne(engine_weights, result, rank_lcm) ==
    SumWeights(engine_weights, DOMAIN result.original_ranks)
        * (rank_lcm \div (RRF_K + 1))

CalculateRrf(engine_weights, result, rank_lcm) ==
    RrfSum(engine_weights, result.original_ranks,
           DOMAIN result.original_ranks, rank_lcm)

\* _calculate_weighted, in units of 1 / (10 * weight_lcm)
RECURSIVE WeightedSum(_, _, _)
WeightedSum(engine_weights, original_scores, S) ==
    IF S = {} THEN 0
    ELSE LET engine == CHOOSE x \in S : TRUE
         IN  EngineWeight(engine_weights, engine) * original_scores[engine]
               + WeightedSum(engine_weights, original_scores, S \ {engine})

CalculateWeighted(engine_weights, result, weight_lcm) ==
    IF DOMAIN result.original_scores = {} THEN 0
    ELSE
      LET engines == DOMAIN result.original_scores
          total_weight == SumWeights(engine_weights, engines)
          weighted_sum == WeightedSum(engine_weights, result.original_scores,
                                      engines)
          engine_bonus == Len(result.engines) - 1
      IN  IF total_weight > 0
          THEN (weighted_sum + engine_bonus * total_weight)
                   * (weight_lcm \div total_weight)
          ELSE engine_bonus * weight_lcm

\* _calculate_borda, in units of 1 / (10 * num_engines * max_rank)
RECURSIVE BordaSum(_, _, _)
BordaSum(engine_weights, original_ranks, S) ==
    IF S = {} THEN 0
    ELSE LET engine == CHOOSE x \in S : TRUE
         IN  EngineWeight(engine_weights, engine)
                   * (BORDA_MAX_RANK - original_ranks[engine] + 1)
               + BordaSum(engine_weights, original_ranks, S \ {engine})

CalculateBorda(engine_weights, result, num_engines) ==
    IF num_engines > 0
    THEN BordaSum(engine_weights, result.original_ranks,
                  DOMAIN result.original_ranks)
    ELSE 0

FusionMethods == {"rrf", "weighted", "borda", "hybrid"}

\* 0.6 * rrf_score + 0.4 * weighted_score,
\* in units of 1 / (100 * Lcm(rank_lcm, weight_lcm))
HybridScore(rrf_score, weighted_score, rank_lcm, weight_lcm) ==
    LET h == Lcm(rank_lcm, weight_lcm)
    IN  6 * rrf_score * (h \div rank_lcm)
          + 4 * weighted_score * (h \div weight_lcm)

\* The score the method selects.
FinalScore(f, method, rank_lcm, weight_lcm) ==
    CASE method = "rrf" -> f.rrf_score
      [] method = "weighted" -> f.weighted_score
      [] method = "borda" -> f.borda_score
      [] method = "hybrid" ->
             HybridScore(f.rrf_score, f.weighted_score, rank_lcm, weight_lcm)

\* list.sort(key=lambda x: x.final_score, reverse=True): stable, so results
\* of equal final_score keep the order they had in url_groups.
RECURSIVE InsertByScore(_, _)
InsertByScore(f, sorted) ==
    IF sorted = <<>> \/ f.final_score > Head(sorted).final_score
    THEN <<f>> \o sorted
    ELSE <<Head(sorted)>> \o InsertByScore(f, Tail(sorted))

RECURSIVE SortByScore(_)
SortByScore(fused_results) ==
    IF fused_results = <<>> THEN <<>>
    ELSE InsertByScore(fused_results[Len(fused_results)],
                       SortByScore(SubSeq(fused_results, 1,
                                          Len(fused_results) - 1)))

\* fused_results[:top_k]
TopK(fused_results, top_k) ==
    SubSeq(fused_results, 1, Min(top_k, Len(fused_results)))

\* 'if top_k:' of fuse: None and 0 are both false.
TopKGiven(top_k) == top_k # <<>> /\ top_k[1] # 0

\* ResultFusion.fuse: what it raises or returns. top_k is Optional[int]: <<>>
\* for None, <<k>> for the integer k.
Fuse(engine_weights, results_by_engine, method, top_k) ==
    LET url_groups == GroupByUrl(<<>>, results_by_engine)
        rank_lcm == RankLcm(results_by_engine)
        weight_lcm == WeightLcm(engine_weights, results_by_engine)
        scored ==
            [i \in 1..Len(url_groups) |->
                LET fused == url_groups[i].fused
                IN  [fused EXCEPT
                       !.rrf_score = CalculateRrf(engine_weights, fused, rank_lcm),
                       !.weighted_score =
                           CalculateWeighted(engine_weights, fused, weight_lcm),
                       !.borda_score =
                           CalculateBorda(engine_weights, fused,
                                          Len(results_by_engine))]]
        final ==
            [i \in 1..Len(scored) |->
                [scored[i] EXCEPT
                   !.final_score =
                       FinalScore(scored[i], method, rank_lcm, weight_lcm)]]
        sorted == SortByScore(final)
    IN  IF method \notin FusionMethods
        THEN [raised |-> "ValueError", fused_results |-> <<>>]
        ELSE [raised |-> None,
              fused_results |-> IF TopKGiven(top_k) THEN TopK(sorted, top_k[1])
                                ELSE sorted]

\* The inputs of the fusion runs.  Raw results: one without a URL, two whose
\* URLs normalize to "a", one whose URL normalizes to "b".
RawResults ==
    { [url |-> <<>>, title |-> <<"n">>, content |-> <<>>, score |-> 9],
      [url |-> UrlA1, title |-> <<"a">>, content |-> <<"x">>, score |-> 9],
      [url |-> UrlA2, title |-> <<"a", "a">>, content |-> <<>>, score |-> 5],
      [url |-> UrlB, title |-> <<"b">>, content |-> <<"y">>, score |-> 9] }

ResultSeqs == UNION {[1..n -> RawResults] : n \in 0..MaxFusionResults}

\* The keys of results_by_engine, in the order of the dict; bing and reddit
\* have the same weight.
FusionEngineLists ==
    {<<>>, <<"bing">>, <<"bing", "reddit">>, <<"reddit", "bing">>,
     <<"brave", "bing">>}

ResultsByEngine ==
    UNION {{[i \in 1..Len(engines) |->
                [engine |-> engines[i], results |-> lists[i]]] :
              lists \in [1..Len(engines) -> ResultSeqs]} :
           engines \in FusionEngineLists}

MethodChoices == FusionMethods \union {"condorcet"}

TopKChoices == {<<>>, <<0>>, <<1>>}

InitFusion ==
    /\ now = StartTime
    /\ engine_health = <<>>
    /\ last_request_time = 0
    /\ last_call = NoCall
    /\ run = <<>>
    /\ req = <<>>
    /\ CacheUnused
    /\ feedback = <<>>
    /\ reranker = <<>>
    /\ pipe = <<>>
    /\ tls = <<>>
    /\ \E results_by_engine \in ResultsByEngine, method \in MethodChoices,
          top_k \in TopKChoices :
           fusion = [pc |-> "call", results_by_engine |-> results_by_engine,
                     method |-> method, top_k |-> top_k,
                     raised |-> None, fused_results |-> <<>>]

\* One call of fuse on the engine created by get_fusion_engine().
FuseCall ==
    /\ fusion.pc = "call"
    /\ LET out == Fuse(DEFAULT_WEIGHTS, fusion.results_by_engine,
                       fusion.method, fusion.top_k)
       IN  fusion' = [fusion EXCEPT !.pc = "returned",
                                    !.raised = out.raised,
                                    !.fused_results = out.fused_results]
    /\ UNCHANGED <<now, throttlerVars, cacheVars, raceVars, feedbackVars,
                   rerankerVars, pipeVars, tlsVars>>

NextFusion == FuseCall

SpecFusion == InitFusion /\ [][NextFusion]_vars

\* fuse has returned a list.
FuseReturned == fusion.pc = "returned" /\ fusion.raised = None

\* The normalized URL of an output result.
NormUrl(f) == DefaultUrlNormalizer(f.url)

\* The normalized URLs of the results with a URL in the i-th input list.
InputNormUrls(i) ==
    LET results == fusion.results_by_engine[i].results
    IN  {DefaultUrlNormalizer(results[k].url) :
            k \in {n \in 1..Len(results) : results[n].url # <<>>}}

\* The engines whose input list holds a result of that normalized URL.
Contributors(norm_url) ==
    {fusion.results_by_engine[i].engine :
        i \in {n \in 1..Len(fusion.results_by_engine) :
                  norm_url \in InputNormUrls(n)}}

\* The output results of that normalized URL.
GroupsOf(norm_url) ==
    {j \in 1..Len(fusion.fused_results) :
        NormUrl(fusion.fused_results[j]) = norm_url}

DistinctNormUrls ==
    \A i, j \in 1..Len(fusion.fused_results) :
        i # j => NormUrl(fusion.fused_results[i]) # NormUrl(fusion.fused_results[j])

EnginesAreContributors ==
    \A j \in 1..Len(fusion.fused_results) :
        SeqToSet(fusion.fused_results[j].engines)
            = Contributors(NormUrl(fusion.fused_results[j]))

EveryInputInOneGroup ==
    \A i \in 1..Len(fusion.results_by_engine) :
        \A u \in InputNormUrls(i) : Cardinality(GroupsOf(u)) = 1

\* C13 as stated: after fuse, no two output results have the same normalized
\* URL, every input result with a URL is in exactly one output group, and the
\* engines of an output are exactly the input lists with a result of its
\* normalized URL.
C13_EveryInputGrouped ==
    FuseReturned
    => DistinctNormUrls /\ EveryInputInOneGroup /\ EnginesAreContributors

\* C13, amended: after fuse, no two output results have the same normalized
\* URL and the engines of an output are exactly the input lists with a result
\* of its normalized URL; every input result with a URL is in exactly one
\* output group when fuse is called without top_k, and in at most one (the
\* groups beyond the first top_k are dropped) when top_k is given.
C13_FuseGroupsByNormalizedUrl ==
    FuseReturned
    => /\ DistinctNormUrls
       /\ EnginesAreContributors
       /\ ~TopKGiven(fusion.top_k) => EveryInputInOneGroup
       /\ \A i \in 1..Len(fusion.results_by_engine) :
              \A u \in InputNormUrls(i) : Cardinality(GroupsOf(u)) <= 1

\* Two engines gave the same page under different URLs, one of them
\* next to a result without URL, and fuse without top_k returned one group for
\* the page.
C13_Witness ==
    /\ FuseReturned
    /\ fusion.top_k = <<>>
    /\ Len(fusion.results_by_engine) = 2
    /\ fusion.results_by_engine[1].results
           = << [url |-> UrlA1, title |-> <<"a">>, content |-> <<"x">>,
                 score |-> 9],
                [url |-> <<>>, title |-> <<"n">>, content |-> <<>>,
                 score |-> 9] >>
    /\ UrlA2 \in {fusion.results_by_engine[2].results[k].url :
                     k \in 1..Len(fusion.results_by_engine[2].results)}
    /\ UrlB \in {fusion.results_by_engine[2].results[k].url :
                    k \in 1..Len(fusion.results_by_engine[2].results)}
    /\ Len(fusion.fused_results) = 2
    /\ \E j \in 1..2 : Len(fusion.fused_results[j].engines) = 2

\* C14: every FusedResult that fuse produces names at least one engine, names
\* no engine twice, and has a rank for exactly the engines it names.
C14_EnginesAreASet ==
    FuseReturned
    => \A j \in 1..Len(fusion.fused_results) :
          LET f == fusion.fused_results[j]
          IN  /\ Len(f.engines) >= 1
              /\ \A a, b \in 1..Len(f.engines) :
                     a # b => f.engines[a] # f.engines[b]
              /\ DOMAIN f.original_ranks = SeqToSet(f.engines)

\* The order of the characters of normalized URLs under Python's string
\* comparison (their code points).
CharOrder == <<".", "/", ":", "a", "b", "h", "p", "s", "t", "w">>

CharRank(c) == CHOOSE i \in 1..Len(CharOrder) : CharOrder[i] = c

\* s1 <= s2 as Python strings
RECURSIVE StrLeq(_, _)
StrLeq(s1, s2) ==
    IF s1 = <<>> THEN TRUE
    ELSE IF s2 = <<>> THEN FALSE
    ELSE IF Head(s1) = Head(s2) THEN StrLeq(Tail(s1), Tail(s2))
    ELSE CharRank(Head(s1)) < CharRank(Head(s2))

\* C15: in the output of fuse, results of equal final score stand in the
\* order of their number of engines, larger first, and those of the same
\* number in the ascending order of their normalized URLs.
C15_TiesByEnginesThenUrl ==
    FuseReturned
    => \A i, j \in 1..Len(fusion.fused_results) :
          LET f == fusion.fused_results[i]
              g == fusion.fused_results[j]
          IN  (i < j /\ f.final_score = g.final_score)
              => \/ Len(f.engines) > Len(g.engines)
                 \/ /\ Len(f.engines) = Len(g.engines)
                    /\ StrLeq(NormUrl(f), NormUrl(g))

\* fuse was given one list, without top_k, and every result of the list has a
\* URL that normalizes to none of the others'.
SingleDistinctList ==
    /\ Len(fusion.results_by_engine) = 1
    /\ fusion.top_k = <<>>
    /\ LET results == fusion.results_by_engine[1].results
       IN  /\ \A i \in 1..Len(results) : results[i].url # <<>>
           /\ \A i, j \in 1..Len(results) :
                 i # j => DefaultUrlNormalizer(results[i].url)
                              # DefaultUrlNormalizer(results[j].url)

NumberOfGroups == Len(GroupByUrl(<<>>, fusion.results_by_engine))

\* The list fuse returns is in the order of the final scores, larger first.
SortedByFinalScore ==
    \A i, j \in 1..Len(fusion.fused_results) :
        i < j => fusion.fused_results[i].final_score
                     >= fusion.fused_results[j].final_score

\* C36: the list fuse returns is sorted by final score, larger first; with a
\* top_k given, 0 included, it has min(top_k, number of URL groups) results,
\* and with top_k None it has all the groups.
C36_TopKLimitsTheList ==
    FuseReturned
    => /\ SortedByFinalScore
       /\ fusion.top_k = <<>> => Len(fusion.fused_results) = NumberOfGroups
       /\ fusion.top_k # <<>>
             => Len(fusion.fused_results)
                    = Min(fusion.top_k[1], NumberOfGroups)

(***************************************************************************)
(* FeedbackLoop (feedback_loop.py).                                        *)
(* Rates, scores and weights are exact fractions [num, den] with den > 0;  *)
(* the code computes them in floating point.                               *)
(***************************************************************************)

\* How many record_impression and record_feedback calls one run makes.
MaxFeedbackCalls == 4

\* FeedbackConfig.min_samples
MIN_SAMPLES == 10

\* ltrim(key, 0, 999)
FEEDBACK_LOG_MAX == 1000

Frac(num, den) == [num |-> num, den |-> den]

FracLess(x, y) == x.num * y.den < y.num * x.den

FracLeq(x, y) == x.num * y.den <= y.num * x.den

FracEq(x, y) == x.num * y.den = y.num * x.den

Reduced(x) ==
    LET g == Gcd(x.num, x.den) IN
    IF x.num = 0 THEN Frac(0, 1) ELSE Frac(x.num \div g, x.den \div g)

\* EnginePerformance(engine=..., query_type=...)
EnginePerformance(engine, query_type, t) ==
    [engine |-> engine, query_type |-> query_type, total_impressions |-> 0,
     clicks |-> 0, dwells |-> 0, helpful_ratings |-> 0,
     not_helpful_ratings |-> 0, total_dwell_time_ms |-> 0,
     avg_click_position |-> Frac(0, 1), last_updated |-> t]

\* EnginePerformance.ctr
Ctr(perf) ==
    IF perf.total_impressions = 0 THEN Frac(0, 1)
    ELSE Frac(perf.clicks, perf.total_impressions)

\* min(x, 1.0)
MinOne(x) == IF FracLess(x, Frac(1, 1)) THEN x ELSE Frac(1, 1)

\* min(self.ctr * 5, 1.0)
CtrScore(perf) == MinOne(Frac(5 * Ctr(perf).num, Ctr(perf).den))

\* min(self.dwells / max(1, self.clicks), 1.0)
DwellScore(perf) == MinOne(Frac(perf.dwells, Max(1, perf.clicks)))

\* self.helpful_ratings / max(1, helpful_total)
HelpfulRate(perf) ==
    Frac(perf.helpful_ratings,
         Max(1, perf.helpful_ratings + perf.not_helpful_ratings))

\* 1.0 / max(1, self.avg_click_position) if self.clicks > 0 else 0.5
PositionScore(perf) ==
    IF perf.clicks > 0
    THEN IF FracLess(Frac(1, 1), perf.avg_click_position)
         THEN Frac(perf.avg_click_position.den, perf.avg_click_position.num)
         ELSE Frac(1, 1)
    ELSE Frac(1, 2)

\* EnginePerformance.engagement_score
EngagementScore(perf) ==
    LET a == CtrScore(perf)
        b == DwellScore(perf)
        c == HelpfulRate(perf)
        d == PositionScore(perf)
    IN  Reduced(Frac(40 * a.num * b.den * c.den * d.den
                       + 25 * b.num * a.den * c.den * d.den
                       + 25 * c.num * a.den * b.den * d.den
                       + 10 * d.num * a.den * b.den * c.den,
                     100 * a.den * b.den * c.den * d.den))

\* EnginePerformance.recommended_weight
RecommendedWeight(perf) ==
    LET score == EngagementScore(perf)
    IN  IF FracLess(score, Frac(1, 2))
        THEN Reduced(Frac(score.den + 2 * score.num, 2 * score.den))
        ELSE Reduced(Frac(2 * score.num, score.den))

\* A weight adjustment that does not wait for min_samples.
GetWeightAdjustment_NoMinSamples(performance, engine, query_type) ==
    LET key == <<engine, query_type>>
    IN  IF key \notin DOMAIN performance THEN Frac(1, 1)
        ELSE RecommendedWeight(performance[key])

\* FeedbackLoop.get_weight_adjustment
GetWeightAdjustment(performance, engine, query_type) ==
    LET key == <<engine, query_type>>
    IN  IF key \notin DOMAIN performance
           \/ performance[key].total_impressions < MIN_SAMPLES
        THEN Frac(1, 1)
        ELSE RecommendedWeight(performance[key])

\* The hash record_feedback writes under perf:{engine}:{query_type}.
PerfHash(perf) ==
    [engine |-> perf.engine, query_type |-> perf.query_type,
     impressions |-> perf.total_impressions, clicks |-> perf.clicks,
     dwells |-> perf.dwells, helpful |-> perf.helpful_ratings,
     not_helpful |-> perf.not_helpful_ratings,
     dwell_time |-> perf.total_dwell_time_ms,
     avg_position |-> perf.avg_click_position, updated |-> perf.last_updated]

\* The EnginePerformance _load_performance builds from a hash.
PerfFromHash(data) ==
    [engine |-> data.engine, query_type |-> data.query_type,
     total_impressions |-> data.impressions, clicks |-> data.clicks,
     dwells |-> data.dwells, helpful_ratings |-> data.helpful,
     not_helpful_ratings |-> data.not_helpful,
     total_dwell_time_ms |-> data.dwell_time,
     avg_click_position |-> data.avg_position, last_updated |-> data.updated]

\* FeedbackLoop._load_performance: every stored hash replaces the record of
\* its key.
LoadPerformance(performance, hashes) ==
    LET loaded == {<<hashes[k].engine, hashes[k].query_type>> :
                      k \in DOMAIN hashes}
    IN  [key \in DOMAIN performance \union loaded |->
            IF key \in loaded
            THEN PerfFromHash(
                     hashes[CHOOSE k \in DOMAIN hashes :
                               <<hashes[k].engine, hashes[k].query_type>> = key])
            ELSE performance[key]]

\* FeedbackLoop.initialize, which the first record_* call awaits: it connects
\* to Redis and loads the stored records, or falls back to memory.
Initialized(fb) ==
    IF fb.initialized THEN fb
    ELSE IF fb.redis_up
    THEN [fb EXCEPT !.initialized = TRUE, !.redis = TRUE,
                    !.performance = LoadPerformance(@, fb.hashes)]
    ELSE [fb EXCEPT !.initialized = TRUE, !.redis = FALSE]

\* The loop of record_impression over the results shown.
RECURSIVE CountImpressions(_, _, _, _)
CountImpressions(performance, query_type, results, t) ==
    IF results = <<>> THEN performance
    ELSE
      LET result == Head(results)
          engine == IF "engine" \in DOMAIN result THEN result.engine
                    ELSE "unknown"
          key == <<engine, query_type>>
          perf == IF key \in DOMAIN performance THEN performance[key]
                  ELSE EnginePerformance(engine, query_type, t)
      IN  CountImpressions(
              Put(performance, key,
                  [perf EXCEPT !.total_impressions = @ + 1]),
              query_type, Tail(results), t)

\* FeedbackSignal
CLICK == "click"
DWELL == "dwell"
REFORMULATE == "reform"
NO_CLICK == "no_click"
HELPFUL == "helpful"
NOT_HELPFUL == "not_help"

\* The update of record_feedback for one signal.
AfterSignal(perf, fb_event, t) ==
    LET p == [perf EXCEPT !.last_updated = t]
    IN  CASE fb_event.signal = CLICK ->
                 [p EXCEPT
                    !.clicks = @ + 1,
                    !.avg_click_position =
                        Reduced(Frac(@.num * perf.clicks
                                       + fb_event.position * @.den,
                                     @.den * (perf.clicks + 1)))]
          [] fb_event.signal = DWELL ->
                 [p EXCEPT
                    !.dwells = @ + 1,
                    !.total_dwell_time_ms = @ + fb_event.dwell_time_ms]
          [] fb_event.signal = HELPFUL -> [p EXCEPT !.helpful_ratings = @ + 1]
          [] fb_event.signal = NOT_HELPFUL ->
                 [p EXCEPT !.not_helpful_ratings = @ + 1]
          [] OTHER -> p

\* lpush(key, value) then ltrim(key, 0, 999)
LPushTrim(log, query_type, value) ==
    LET old == IF query_type \in DOMAIN log THEN log[query_type] ELSE <<>>
        new == <<value>> \o old
    IN  Put(log, query_type, SubSeq(new, 1, Min(Len(new), FEEDBACK_LOG_MAX)))

\* The Redis key of a performance hash.
PerfKey(engine, query_type) == <<"perf:", engine, query_type>>

\* The inputs of the feedback runs.
QueryTypes == {"general"}

ImpressionLists ==
    { <<>>,
      <<[engine |-> "brave"]>>,
      <<[engine |-> "brave"], [engine |-> "bing"]>>,
      <<[url |-> UrlB]>> }

SearchFeedback(engine, signal, position, dwell_time_ms) ==
    [query_type |-> "general", engine |-> engine, signal |-> signal,
     position |-> position, dwell_time_ms |-> dwell_time_ms]

FeedbackEvents ==
    { SearchFeedback("brave", CLICK, 1, 0),
      SearchFeedback("brave", CLICK, 3, 0),
      SearchFeedback("brave", DWELL, 1, 500),
      SearchFeedback("brave", DWELL, 1, 0),
      SearchFeedback("brave", HELPFUL, 1, 0),
      SearchFeedback("brave", NOT_HELPFUL, 1, 0),
      SearchFeedback("brave", REFORMULATE, 1, 0),
      SearchFeedback("bing", NO_CLICK, 1, 0),
      SearchFeedback("bing", CLICK, 1, 0) }

\* What Redis holds of earlier runs when the loop starts: nothing, or the
\* hash of (brave, general) one impression short of min_samples.
StoredHashes ==
    { <<>>,
      (PerfKey("brave", "general") :>
          PerfHash([EnginePerformance("brave", "general", StartTime)
                      EXCEPT !.total_impressions = MIN_SAMPLES - 1,
                             !.clicks = 1,
                             !.avg_click_position = Frac(2, 1)])) }

NewFeedbackLoop(redis_up, hashes) ==
    [initialized |-> FALSE, redis_up |-> redis_up, redis |-> FALSE,
     performance |-> <<>>, hashes |-> hashes, log |-> <<>>, calls |-> 0]

InitFeedback ==
    /\ now = StartTime
    /\ engine_health = <<>>
    /\ last_request_time = 0
    /\ last_call = NoCall
    /\ run = <<>>
    /\ req = <<>>
    /\ CacheUnused
    /\ fusion = <<>>
    /\ reranker = <<>>
    /\ pipe = <<>>
    /\ tls = <<>>
    /\ \E redis_up \in BOOLEAN, hashes \in StoredHashes :
           /\ ~redis_up => hashes = <<>>
           /\ feedback = NewFeedbackLoop(redis_up, hashes)

\* FeedbackLoop.record_impression
RecordImpression(query_type, results) ==
    /\ feedback.calls < MaxFeedbackCalls
    /\ LET fb == Initialized(feedback)
       IN  feedback' =
               [fb EXCEPT !.calls = @ + 1,
                          !.performance =
                              CountImpressions(@, query_type, results, now)]
    /\ UNCHANGED <<now, throttlerVars, cacheVars, raceVars, fusionVars,
                   rerankerVars, pipeVars, tlsVars>>

\* FeedbackLoop.record_feedback; persist tells which Redis command, if any,
\* raises (a failing ltrim leaves the same state as none).
RecordFeedback(fb_event, persist) ==
    /\ feedback.calls < MaxFeedbackCalls
    /\ LET fb == Initialized(feedback)
           key == <<fb_event.engine, fb_event.query_type>>
           old == IF key \in DOMAIN fb.performance THEN fb.performance[key]
                  ELSE EnginePerformance(fb_event.engine,
                                         fb_event.query_type, now)
           perf == AfterSignal(old, fb_event, now)
       IN  /\ ~fb.redis => persist = "ok"
           /\ feedback' =
                 [fb EXCEPT
                    !.calls = @ + 1,
                    !.performance = Put(@, key, perf),
                    !.hashes =
                        IF fb.redis /\ persist # "hset_fails"
                        THEN Put(@, PerfKey(fb_event.engine,
                                            fb_event.query_type),
                                 PerfHash(perf))
                        ELSE @,
                    !.log =
                        IF fb.redis /\ persist = "ok"
                        THEN LPushTrim(@, fb_event.query_type, fb_event)
                        ELSE @]
    /\ UNCHANGED <<now, throttlerVars, cacheVars, raceVars, fusionVars,
                   rerankerVars, pipeVars, tlsVars>>

NextFeedback ==
    \/ \E query_type \in QueryTypes, results \in ImpressionLists :
           RecordImpression(query_type, results)
    \/ \E fb_event \in FeedbackEvents,
          persist \in {"ok", "hset_fails", "lpush_fails"} :
           RecordFeedback(fb_event, persist)

SpecFeedback == InitFeedback /\ [][NextFeedback]_vars

FeedbackEngines == {"brave", "bing", "unknown", "mojeek"}

\* C16: after any sequence of record_impression and record_feedback calls,
\* get_weight_adjustment of every (engine, query type) is at least 0.5 and at
\* most 2.0, and it is 1.0 when the pair has no record or its record has
\* fewer than min_samples impressions.
C16_WeightAdjustmentBounded ==
    \A engine \in FeedbackEngines, query_type \in QueryTypes :
        LET w == GetWeightAdjustment(feedback.performance, engine, query_type)
            key == <<engine, query_type>>
        IN  /\ FracLeq(Frac(1, 2), w)
            /\ FracLeq(w, Frac(2, 1))
            /\ (key \notin DOMAIN feedback.performance
                  \/ feedback.performance[key].total_impressions < MIN_SAMPLES)
               => w = Frac(1, 1)

\* The calls have taken (brave, general) to min_samples impressions and to a
\* weight above 1.0, while (bing, general) has a record with clicks that is
\* still below min_samples.
C16_Witness ==
    /\ <<"brave", "general">> \in DOMAIN feedback.performance
    /\ <<"bing", "general">> \in DOMAIN feedback.performance
    /\ feedback.performance[<<"brave", "general">>].total_impressions
           >= MIN_SAMPLES
    /\ FracLess(Frac(1, 1),
                GetWeightAdjustment(feedback.performance, "brave", "general"))
    /\ feedback.performance[<<"bing", "general">>].total_impressions
           < MIN_SAMPLES
    /\ feedback.performance[<<"bing", "general">>].clicks > 0

(***************************************************************************)
(* CrossEncoderReranker (cross_encoder_rerank.py).                         *)
(* Each caller is an asyncio task inside rerank; a step runs a task from   *)
(* one suspension point to the next.  A model is named by the number of    *)
(* the load that produced it, 0 is None.  Scores are exact fractions.      *)
(* The wall-clock fields of the statistics are left out.                   *)
(***************************************************************************)

\* How many tasks call rerank concurrently.
MaxRerankCallers == 2

\* How many rerank calls one run makes.
MaxRerankCalls == 3

\* RerankerConfig.top_k
RERANK_TOP_K == 20

RerankCallers == 1..MaxRerankCallers

\* RerankResult
RerankResult(original_result, cross_encoder_score, original_rank, final_score) ==
    [original_result |-> original_result,
     cross_encoder_score |-> cross_encoder_score,
     original_rank |-> original_rank, final_score |-> final_score]

\* The list rerank returns without a model: the results in their order, the
\* i-th (from 0) with final_score 1.0 - i * 0.01.
OriginalOrder(results) ==
    [n \in 1..Len(results) |->
        RerankResult(results[n], 0, n - 1, Frac(100 - (n - 1), 100))]

\* results[:top_k], with top_k or self.config.top_k
ResultsToRerank(results, top_k) ==
    SubSeq(results, 1,
           Min(Len(results), IF top_k # 0 THEN top_k ELSE RERANK_TOP_K))

\* min(scores), max(scores)
MinScore(scores) ==
    CHOOSE s \in SeqToSet(scores) : \A t \in SeqToSet(scores) : s <= t

MaxScore(scores) ==
    CHOOSE s \in SeqToSet(scores) : \A t \in SeqToSet(scores) : s >= t

\* The hybrid scoring of rerank, before the sort:
\* final_score = 0.7 * (s - min) / range + 0.3 * (1.0 - i * 0.05)
Scored(results, scores) ==
    LET min_score == IF scores # <<>> THEN MinScore(scores) ELSE 0
        max_score == IF scores # <<>> THEN MaxScore(scores) ELSE 1
        score_range == IF max_score # min_score THEN max_score - min_score
                       ELSE 1
    IN  [n \in 1..Len(results) |->
            RerankResult(results[n], scores[n], n - 1,
                Frac(700 * (scores[n] - min_score)
                       + 3 * (100 - 5 * (n - 1)) * score_range,
                     1000 * score_range))]

\* reranked.sort(key=lambda x: x.final_score, reverse=True), a stable sort
RECURSIVE InsertByFinal(_, _)
InsertByFinal(r, sorted) ==
    IF sorted = <<>> \/ FracLess(Head(sorted).final_score, r.final_score)
    THEN <<r>> \o sorted
    ELSE <<Head(sorted)>> \o InsertByFinal(r, Tail(sorted))

RECURSIVE SortByFinal(_)
SortByFinal(reranked) ==
    IF reranked = <<>> THEN <<>>
    ELSE InsertByFinal(reranked[Len(reranked)],
                       SortByFinal(SubSeq(reranked, 1, Len(reranked) - 1)))

\* RerankStats.record_rerank
RecordRerank(rstats, num_results) ==
    [rstats EXCEPT !.total_reranks = @ + 1,
                   !.total_results_processed = @ + num_results]

\* A task that is not inside rerank.
IdleCaller ==
    [pc |-> "idle", results |-> <<>>, top_k |-> 0, model |-> 0, out |-> <<>>,
     fallback |-> FALSE, during |-> 0, cleared |-> FALSE, loaded |-> FALSE,
     after_success |-> FALSE]

\* CrossEncoderReranker.__init__
NewReranker(available) ==
    [available |-> available, model |-> 0, lock |-> 0, waiters |-> <<>>,
     loads |-> 0, load_results |-> <<>>, valid |-> FALSE, calls |-> 0,
     stats |-> [total_reranks |-> 0, total_results_processed |-> 0],
     callers |-> [c \in RerankCallers |-> IdleCaller]]

\* The load that is running, 0 if none.
LoadInProgress(rr) ==
    IF \E c \in RerankCallers : rr.callers[c].pc = "loading" THEN rr.loads
    ELSE 0

\* What rerank does once _get_model has returned: without a model it returns
\* the original order, with one it hands _compute_scores to the executor.
AfterGetModel(rr, c) ==
    LET caller == rr.callers[c]
        results_to_rerank == ResultsToRerank(caller.results, caller.top_k)
    IN  IF caller.model = 0
        THEN [rr EXCEPT !.callers[c].pc = "done",
                        !.callers[c].fallback = TRUE,
                        !.callers[c].out = OriginalOrder(results_to_rerank)]
        ELSE [rr EXCEPT !.callers[c].pc = "scoring"]

\* The task holds the lock of _get_model: it returns the cached model, or
\* hands _load_model to the executor and keeps the lock.
WithLock(rr, c) ==
    IF rr.model # 0
    THEN AfterGetModel([rr EXCEPT !.lock = 0,
                                  !.callers[c].model = rr.model], c)
    ELSE [rr EXCEPT !.lock = c,
                    !.loads = @ + 1,
                    !.callers[c].pc = "loading",
                    !.callers[c].loaded = TRUE,
                    !.callers[c].after_success = rr.valid]

\* The inputs of the rerank calls.
RerankDocs ==
    { [url |-> UrlA1, title |-> <<"a">>, content |-> <<"x">>],
      [url |-> UrlB, title |-> <<"b">>, content |-> <<"y">>] }

RerankLists ==
    { <<>>,
      <<[url |-> UrlA1, title |-> <<"a">>, content |-> <<"x">>]>>,
      <<[url |-> UrlA1, title |-> <<"a">>, content |-> <<"x">>],
        [url |-> UrlB, title |-> <<"b">>, content |-> <<"y">>]>> }

RerankTopKChoices == {0, 1}

\* What model.predict gives for a document.
PredictChoices == {0, 3}

InitReranker ==
    /\ now = StartTime
    /\ engine_health = <<>>
    /\ last_request_time = 0
    /\ last_call = NoCall
    /\ run = <<>>
    /\ req = <<>>
    /\ CacheUnused
    /\ fusion = <<>>
    /\ feedback = <<>>
    /\ pipe = <<>>
    /\ tls = <<>>
    /\ \E available \in BOOLEAN : reranker = NewReranker(available)

\* rerank, from its call to its first suspension or its return.
RerankStart(c, results, top_k) ==
    /\ reranker.calls < MaxRerankCalls
    /\ reranker.callers[c].pc \in {"idle", "done", "raised"}
    /\ LET rr == [reranker EXCEPT
                    !.calls = @ + 1,
                    !.callers[c] =
                        [IdleCaller EXCEPT !.results = results,
                                           !.top_k = top_k,
                                           !.during = LoadInProgress(reranker)]]
       IN  reranker' =
               IF ~reranker.available
               THEN [rr EXCEPT !.callers[c].pc = "done",
                               !.callers[c].fallback = TRUE,
                               !.callers[c].out = OriginalOrder(results)]
               ELSE IF reranker.lock = 0 /\ reranker.waiters = <<>>
               THEN WithLock(rr, c)
               ELSE [rr EXCEPT !.callers[c].pc = "waiting",
                               !.waiters = Append(@, c)]
    /\ UNCHANGED <<now, throttlerVars, cacheVars, raceVars, fusionVars,
                   feedbackVars, pipeVars, tlsVars>>

\* The lock is released and the first waiter of asyncio.Lock takes it.
LockGranted(c) ==
    /\ reranker.lock = 0
    /\ reranker.waiters # <<>>
    /\ Head(reranker.waiters) = c
    /\ reranker' = WithLock([reranker EXCEPT !.waiters = Tail(@)], c)
    /\ UNCHANGED <<now, throttlerVars, cacheVars, raceVars, fusionVars,
                   feedbackVars, pipeVars, tlsVars>>

\* _load_model has returned in the executor: a model, or None when
\* CrossEncoder(...) raised.
LoadDone(c, loaded) ==
    /\ reranker.callers[c].pc = "loading"
    /\ LET model == IF loaded THEN reranker.loads ELSE 0
       IN  reranker' =
               AfterGetModel(
                   [reranker EXCEPT
                      !.model = model,
                      !.lock = 0,
                      !.valid = IF loaded THEN TRUE ELSE @,
                      !.load_results = Append(@, loaded),
                      !.callers[c].model = model], c)
    /\ UNCHANGED <<now, throttlerVars, cacheVars, raceVars, fusionVars,
                   feedbackVars, pipeVars, tlsVars>>

\* _compute_scores has returned in the executor, or model.predict raised.
ScoresDone(c, scores, raises) ==
    /\ reranker.callers[c].pc = "scoring"
    /\ LET caller == reranker.callers[c]
           results_to_rerank == ResultsToRerank(caller.results, caller.top_k)
       IN  /\ DOMAIN scores = 1..Len(results_to_rerank)
           /\ raises => \A n \in DOMAIN scores : scores[n] = 0
           /\ reranker' =
                 IF raises
                 THEN [reranker EXCEPT !.callers[c].pc = "raised"]
                 ELSE [reranker EXCEPT
                         !.callers[c].pc = "done",
                         !.callers[c].out =
                             SortByFinal(Scored(results_to_rerank, scores)),
                         !.stats = RecordRerank(@, Len(results_to_rerank))]
    /\ UNCHANGED <<now, throttlerVars, cacheVars, raceVars, fusionVars,
                   feedbackVars, pipeVars, tlsVars>>

\* CrossEncoderReranker.clear_model
ClearModel ==
    /\ reranker' =
           [reranker EXCEPT
              !.model = 0,
              !.valid = FALSE,
              !.callers =
                  [c \in RerankCallers |->
                      IF @[c].pc \in {"waiting", "loading"}
                      THEN [@[c] EXCEPT !.cleared = TRUE] ELSE @[c]]]
    /\ UNCHANGED <<now, throttlerVars, cacheVars, raceVars, fusionVars,
                   feedbackVars, pipeVars, tlsVars>>

ScoreLists == UNION {[1..n -> PredictChoices] : n \in 0..2}

NextReranker ==
    \/ \E c \in RerankCallers, results \in RerankLists,
          top_k \in RerankTopKChoices :
           RerankStart(c, results, top_k)
    \/ \E c \in RerankCallers : LockGranted(c)
    \/ \E c \in RerankCallers, loaded \in BOOLEAN : LoadDone(c, loaded)
    \/ \E c \in RerankCallers, scores \in ScoreLists, raises \in BOOLEAN :
           ScoresDone(c, scores, raises)
    \/ ClearModel

SpecReranker == InitReranker /\ [][NextReranker]_vars

\* The tasks whose _load_model is running.
Loading == {c \in RerankCallers : reranker.callers[c].pc = "loading"}

SingleLoadInProgress == Cardinality(Loading) <= 1

\* A task that arrived while load k was running, and during whose wait
\* clear_model was not called, has the outcome of load k and started no load.
WaitersUseTheLoad ==
    \A c \in RerankCallers :
        LET caller == reranker.callers[c]
        IN  (caller.during # 0 /\ ~caller.cleared
               /\ caller.pc \in {"loading", "scoring", "done", "raised"})
            => /\ ~caller.loaded
               /\ caller.model = IF reranker.load_results[caller.during]
                                 THEN caller.during ELSE 0

\* No load was started while a loaded model was in place.
NoLoadAfterSuccess ==
    \A c \in RerankCallers : ~reranker.callers[c].after_success

\* C20: model loading is single-flight: at most one load runs at a time, a
\* task that arrives during a load waits for it and takes its result instead
\* of loading, and once a load has succeeded none is started before
\* clear_model is called.
C20_ModelLoadIsSingleFlight ==
    SingleLoadInProgress /\ WaitersUseTheLoad /\ NoLoadAfterSuccess

(***************************************************************************)
(* SearXNGClient.search_full_pipeline (searxng_client.py), one request at  *)
(* a time, a step per awaited collaborator.  SearXNGClient.search and the  *)
(* cache, the local index and the metrics are taken by their outcomes;     *)
(* fusion, reranking and the feedback loop are the operators above.  The   *)
(* wall-clock fields of the response are left out.                         *)
(***************************************************************************)

\* How many requests one run serves.
MaxPipelineRequests == 2

\* dict.get(key, default)
DictGet(dict, key, default) ==
    IF key \in DOMAIN dict THEN dict[key] ELSE default

\* round(x, 4) of a score num / den, in ten-thousandths
Round4(num, den) == (2 * 10000 * num + den) \div (2 * den)

\* FusedResult.to_dict; rrf_den, weighted_den and final_den are the
\* denominators of the call that made the scores.
FusedToDict(f, rrf_den, weighted_den, final_den) ==
    [url |-> f.url, title |-> f.title, content |-> f.content,
     engines |-> f.engines, engine_count |-> Len(f.engines),
     rrf_score |-> Round4(f.rrf_score, rrf_den),
     weighted_score |-> Round4(f.weighted_score, weighted_den),
     final_score |-> Round4(f.final_score, final_den)]

\* The grouping of fuse_from_searxng: by_engine[engine].append(result), the
\* engines in the order of their first result.
RECURSIVE GroupByEngine(_, _)
GroupByEngine(by_engine, results) ==
    IF results = <<>> THEN by_engine
    ELSE
      LET result == Head(results)
          engine == DictGet(result, "engine", "unknown")
          found == {i \in 1..Len(by_engine) : by_engine[i].engine = engine}
      IN  GroupByEngine(
              IF found = {}
              THEN Append(by_engine,
                          [engine |-> engine, results |-> <<result>>])
              ELSE LET i == CHOOSE n \in found : TRUE
                   IN  [by_engine EXCEPT ![i].results = Append(@, result)],
              Tail(results))

\* [r.to_dict() for r in fused_results]
FusedToDicts(fused_results, rrf_den, weighted_den) ==
    [n \in 1..Len(fused_results) |->
        FusedToDict(fused_results[n], rrf_den, weighted_den, rrf_den)]

\* fuse_from_searxng(method="rrf") after the grouping, and the to_dict of
\* search_with_rrf.
FuseFromSearxng(engine_weights, by_engine, top_k) ==
    FusedToDicts(Fuse(engine_weights, by_engine, "rrf", <<top_k>>).fused_results,
                 10 * RankLcm(by_engine),
                 10 * WeightLcm(engine_weights, by_engine))

\* search_with_rrf after the response, on the engine of get_fusion_engine().
SearchWithRrf(engine_weights, raw_results, top_k) ==
    FuseFromSearxng(engine_weights, GroupByEngine(<<>>, raw_results), top_k)

\* RerankResult.to_dict
RerankToDict(r) ==
    Put(r.original_result, "rerank_scores",
        [cross_encoder |-> r.cross_encoder_score,
         original_rank |-> r.original_rank, final |-> r.final_score])

\* The copies search_full_pipeline puts into combined: the local documents
\* with their score raised by 0.5, then the web results.
Combined(local_results, web_results) ==
    [n \in 1..Len(local_results) |->
        Put(Put(local_results[n], "score",
                DictGet(local_results[n], "score", 10) + 5),
            "source_type", "local_docs")]
    \o [n \in 1..Len(web_results) |->
           Put(web_results[n], "source_type", "web")]

\* combined.sort(key=lambda x: x.get("score", 0), reverse=True), stable
RECURSIVE InsertByDictScore(_, _)
InsertByDictScore(d, sorted) ==
    IF sorted = <<>>
         \/ DictGet(d, "score", 0) > DictGet(Head(sorted), "score", 0)
    THEN <<d>> \o sorted
    ELSE <<Head(sorted)>> \o InsertByDictScore(d, Tail(sorted))

RECURSIVE SortByDictScore(_)
SortByDictScore(combined) ==
    IF combined = <<>> THEN <<>>
    ELSE InsertByDictScore(combined[Len(combined)],
                           SortByDictScore(SubSeq(combined, 1,
                                                  Len(combined) - 1)))

\* The three results SearXNG can return: brave and bing both found "a",
\* bing also found "b".
RawBraveA ==
    [title |-> <<"a">>, url |-> UrlA1, content |-> <<"x">>,
     engine |-> "brave", score |-> 9]

RawBingA ==
    [title |-> <<"a", "a">>, url |-> UrlA2, content |-> <<>>,
     engine |-> "bing", score |-> 5]

RawBingB ==
    [title |-> <<"b">>, url |-> UrlB, content |-> <<"y">>,
     engine |-> "bing", score |-> 9]

\* A web result whose URL is, but for the trailing slash, the URL the local
\* index gives its document.
UrlWebD == <<"f", "i", "l", "e", ":", "/", "/", "/", "d", "/">>

RawBraveD ==
    [title |-> <<"d">>, url |-> UrlWebD, content |-> <<"z">>,
     engine |-> "brave", score |-> 9]

\* What SearXNGClient.search does for the pipeline: it raises, or it returns
\* a response with these results.
SearchOutcomes ==
    { [raised |-> TRUE, results |-> <<>>],
      [raised |-> FALSE, results |-> <<>>],
      [raised |-> FALSE, results |-> <<RawBraveD>>],
      [raised |-> FALSE, results |-> <<RawBingB, RawBraveA>>],
      [raised |-> FALSE, results |-> <<RawBraveA, RawBingA, RawBingB>>] }

\* LocalDocResult.to_searxng_format of the one document of the local index.
UrlLocal == <<"f", "i", "l", "e", ":", "/", "/", "/", "d">>

LocalDoc ==
    [url |-> UrlLocal, title |-> <<"d">>, content |-> <<"z">>,
     engine |-> "local_docs", score |-> 10, category |-> "files"]

\* What the local search does: it raises, or it returns these documents.
LocalOutcomes ==
    { [raised |-> TRUE, results |-> <<>>],
      [raised |-> FALSE, results |-> <<>>],
      [raised |-> FALSE, results |-> <<LocalDoc>>] }

\* router.route(query) of the one query of a run: the router is missing, or
\* it classifies the query.
RouterDecisions ==
    { [router |-> FALSE, query_type |-> ""],
      [router |-> TRUE, query_type |-> "technical"] }

\* The components the client was constructed with: all of them, all but
\* one, or none.
AllComponents ==
    [cache |-> TRUE, fusion |-> TRUE, local_docs |-> TRUE,
     reranker |-> TRUE, feedback |-> TRUE]

PipeConfigs ==
    {AllComponents, [k \in DOMAIN AllComponents |-> FALSE]}
      \union {[AllComponents EXCEPT ![k] = FALSE] : k \in DOMAIN AllComponents}

\* A feedback loop that has seen brave answer technical queries well.
EngagedHashes ==
    (PerfKey("brave", "technical") :>
        PerfHash([EnginePerformance("brave", "technical", StartTime)
                    EXCEPT !.total_impressions = MIN_SAMPLES,
                           !.clicks = 5, !.dwells = 5,
                           !.helpful_ratings = 1,
                           !.avg_click_position = Frac(1, 1)]))

\* The feedback loop at the start of a run: new, or initialized by an
\* earlier request.
PipeFeedbackLoops ==
    { NewFeedbackLoop(FALSE, <<>>),
      Initialized(NewFeedbackLoop(TRUE, EngagedHashes)) }

PipeTopKs == {1, 2}

NoReranking == [applied |-> FALSE, note |-> "", input_count |-> 0,
                output_count |-> 0]

\* The locals and the result dict of a request that has not started.
NewRequest ==
    [top_k |-> 0, apply_reranking |-> FALSE, metrics_outcome |-> "off",
     routing |-> [query_type |-> "", has_query_type |-> FALSE],
     cache |-> [hit |-> FALSE, level |-> ""],
     fusion |-> [applied |-> FALSE, input_count |-> 0],
     local_docs |-> [note |-> "", count |-> 0],
     reranking |-> NoReranking,
     metrics |-> "",
     web_results |-> <<>>, cache_hit |-> FALSE, local_results |-> <<>>,
     combined |-> <<>>, results |-> <<>>, result_count |-> 0,
     searched |-> FALSE, stores |-> 0, rerank_calls |-> 0,
     rerank_fallback |-> FALSE, rerank_returned |-> <<>>]

NewPipeline(config, decision) ==
    [pc |-> "idle", requests |-> 0, config |-> config,
     decision |-> decision,
     cached |-> [present |-> FALSE, results |-> <<>>],
     engine_weights |-> DEFAULT_WEIGHTS,
     stats |-> [cache_hits |-> 0, cache_misses |-> 0,
                local_docs_results |-> 0, reranked_searches |-> 0],
     perf_before |-> <<>>,
     r |-> NewRequest]

InitPipeline ==
    /\ now = StartTime
    /\ engine_health = <<>>
    /\ last_request_time = 0
    /\ last_call = NoCall
    /\ run = <<>>
    /\ req = <<>>
    /\ CacheUnused
    /\ fusion = <<>>
    /\ reranker = <<>>
    /\ tls = <<>>
    /\ feedback \in PipeFeedbackLoops
    /\ \E config \in PipeConfigs, decision \in RouterDecisions :
          pipe = NewPipeline(config, decision)

\* Lines 914-948: the sort by score, the cut to top_k, the metrics, and the
\* way to the feedback loop or to the return.
Finish(p) ==
    LET results == SubSeq(SortByDictScore(p.r.combined), 1,
                          Min(Len(p.r.combined), p.r.top_k))
        q == [p EXCEPT !.r.combined = SortByDictScore(@),
                       !.r.results = results,
                       !.r.metrics =
                           CASE p.r.metrics_outcome = "ok" -> "recorded"
                             [] p.r.metrics_outcome = "fails" -> "error"
                             [] OTHER -> ""]
    IN  IF p.config.feedback /\ results # <<>>
        THEN [q EXCEPT !.pc = "feedback"]
        ELSE [q EXCEPT !.pc = "done", !.r.result_count = Len(results)]

\* Lines 882-912: combined is built, and the reranker is awaited or skipped.
ToRerank(p) ==
    LET q == [p EXCEPT !.r.combined =
                           Combined(p.r.local_results, p.r.web_results)]
    IN  IF p.r.apply_reranking /\ p.config.reranker /\ q.r.combined # <<>>
        THEN [q EXCEPT !.pc = "rerank"]
        ELSE Finish([q EXCEPT !.r.reranking =
                          [NoReranking EXCEPT
                             !.note = "disabled or unavailable"]])

\* Lines 869-871: the local index is awaited or skipped.
ToLocal(p) ==
    IF p.config.local_docs THEN [p EXCEPT !.pc = "local"]
    ELSE ToRerank(p)

\* Lines 847-849: no cache hit; the search is awaited next.
ToSearch(p) ==
    [p EXCEPT !.pc = "search",
              !.r.cache = [hit |-> FALSE, level |-> ""],
              !.stats.cache_misses = @ + 1]

\* search_full_pipeline, from its call to its first suspension (lines
\* 798-840); metrics_outcome tells what record_search will do.
PipeStart(top_k, apply_reranking, metrics_outcome) ==
    /\ pipe.pc \in {"idle", "done", "raised"}
    /\ pipe.requests < MaxPipelineRequests
    /\ LET p == [pipe EXCEPT
                   !.requests = @ + 1,
                   !.perf_before = feedback.performance,
                   !.r = [NewRequest EXCEPT
                            !.top_k = top_k,
                            !.apply_reranking = apply_reranking,
                            !.metrics_outcome = metrics_outcome,
                            !.routing =
                                [query_type |-> pipe.decision.query_type,
                                 has_query_type |-> pipe.decision.router]]]
       IN  pipe' = IF pipe.config.cache THEN [p EXCEPT !.pc = "cache"]
                   ELSE ToSearch(p)
    /\ UNCHANGED <<now, throttlerVars, cacheVars, raceVars, fusionVars,
                   feedbackVars, rerankerVars, tlsVars>>

\* self._cache.get returns: level is "l1", "l2" or "miss" (lines 840-849).
PipeCacheGet(level) ==
    /\ pipe.pc = "cache"
    /\ level # "miss" => pipe.cached.present
    /\ pipe' =
          IF level # "miss"
          THEN ToLocal([pipe EXCEPT
                          !.r.cache_hit = TRUE,
                          !.r.web_results = pipe.cached.results,
                          !.r.cache = [hit |-> TRUE, level |-> level],
                          !.stats.cache_hits = @ + 1])
          ELSE ToSearch(pipe)
    /\ UNCHANGED <<now, throttlerVars, cacheVars, raceVars, fusionVars,
                   feedbackVars, rerankerVars, tlsVars>>

\* What the fresh search leaves in web_results (lines 852-863).
WebResults(p, outcome) ==
    IF outcome.raised THEN <<>>
    ELSE IF p.config.fusion
    THEN SearchWithRrf(p.engine_weights, outcome.results, p.r.top_k * 2)
    ELSE SubSeq(outcome.results, 1,
                Min(Len(outcome.results), p.r.top_k * 2))

\* A pipeline that stores whatever the search gave, results or none.
AfterSearch_StoreEmpty(p, outcome, web_results) ==
    [p EXCEPT
       !.pc = IF p.config.cache THEN "store" ELSE "searched",
       !.r.searched = TRUE,
       !.r.web_results = web_results,
       !.r.fusion = IF p.config.fusion /\ ~outcome.raised
                    THEN [applied |-> TRUE, input_count |-> Len(web_results)]
                    ELSE @]

\* Lines 857 and 865-867, once web_results is known.
AfterSearch(p, outcome, web_results) ==
    [p EXCEPT
       !.pc = IF p.config.cache /\ web_results # <<>> THEN "store"
              ELSE "searched",
       !.r.searched = TRUE,
       !.r.web_results = web_results,
       !.r.fusion = IF p.config.fusion /\ ~outcome.raised
                    THEN [applied |-> TRUE, input_count |-> Len(web_results)]
                    ELSE @]

\* The fresh search returns or raises (lines 851-867).
PipeSearch(outcome) ==
    /\ pipe.pc = "search"
    /\ \E web_results \in {WebResults(pipe, outcome)} :
          \E p \in {AfterSearch(pipe, outcome, web_results)} :
             pipe' = IF p.pc = "store" THEN p ELSE ToLocal(p)
    /\ UNCHANGED <<now, throttlerVars, cacheVars, raceVars, fusionVars,
                   feedbackVars, rerankerVars, tlsVars>>

\* self._cache.store returns; stored tells whether the cache kept the entry
\* (line 867).
PipeStore(stored) ==
    /\ pipe.pc = "store"
    /\ pipe' = ToLocal([pipe EXCEPT
                          !.r.stores = @ + 1,
                          !.cached =
                              IF stored
                              THEN [present |-> TRUE,
                                    results |-> pipe.r.web_results]
                              ELSE @])
    /\ UNCHANGED <<now, throttlerVars, cacheVars, raceVars, fusionVars,
                   feedbackVars, rerankerVars, tlsVars>>

\* A local search whose exception is not caught.
LocalFailed_Propagates(p) == [p EXCEPT !.pc = "raised"]

\* The except block of the local search (lines 878-880).
LocalFailed(p) ==
    [p EXCEPT !.r.local_docs = [note |-> "error", count |-> 0]]

\* Lines 875-877: the local search returned.
LocalReturned(p, results) ==
    [p EXCEPT !.r.local_results = results,
              !.r.local_docs = [note |-> "count", count |-> Len(results)],
              !.stats.local_docs_results = @ + Len(results)]

\* The local search returns or raises (lines 872-880).
PipeLocal(outcome) ==
    /\ pipe.pc = "local"
    /\ \E p \in {IF outcome.raised THEN LocalFailed(pipe)
                  ELSE LocalReturned(pipe, outcome.results)} :
          pipe' = IF p.pc = "raised" THEN p ELSE ToRerank(p)
    /\ UNCHANGED <<now, throttlerVars, cacheVars, raceVars, fusionVars,
                   feedbackVars, rerankerVars, tlsVars>>

\* rerank_to_dicts returns or raises (lines 896-912).  outcome is "no_model"
\* when _get_model gave None, "raises" when scoring raised, "scored" when
\* the model predicted scores.
PipeRerank(outcome, scores) ==
    /\ pipe.pc = "rerank"
    /\ LET results_to_rerank ==
               ResultsToRerank(pipe.r.combined, pipe.r.top_k)
           returned ==
               IF outcome = "no_model" THEN OriginalOrder(results_to_rerank)
               ELSE SortByFinal(Scored(results_to_rerank, scores))
           reranked == [n \in 1..Len(returned) |-> RerankToDict(returned[n])]
       IN  /\ outcome = "scored" => Len(scores) = Len(results_to_rerank)
           /\ outcome # "scored" => scores = <<>>
           /\ pipe' =
                 Finish(
                     IF outcome = "raises"
                     THEN [pipe EXCEPT
                             !.r.rerank_calls = @ + 1,
                             !.r.reranking =
                                 [NoReranking EXCEPT !.note = "error"]]
                     ELSE [pipe EXCEPT
                             !.r.rerank_calls = @ + 1,
                             !.r.rerank_fallback = (outcome = "no_model"),
                             !.r.rerank_returned = returned,
                             !.r.combined = reranked,
                             !.r.reranking =
                                 [applied |-> TRUE, note |-> "",
                                  input_count |-> Len(reranked),
                                  output_count |-> Len(reranked)],
                             !.stats.reranked_searches = @ + 1])
    /\ UNCHANGED <<now, throttlerVars, cacheVars, raceVars, fusionVars,
                   feedbackVars, rerankerVars, tlsVars>>

\* record_impression returns (lines 932-948).
PipeFeedback ==
    /\ pipe.pc = "feedback"
    /\ LET fb == Initialized(feedback)
           query_type == IF pipe.r.routing.has_query_type
                         THEN pipe.r.routing.query_type ELSE "general"
       IN  feedback' =
               [fb EXCEPT !.performance =
                              CountImpressions(@, query_type,
                                               pipe.r.results, now)]
    /\ pipe' = [pipe EXCEPT !.pc = "done",
                            !.r.result_count = Len(pipe.r.results)]
    /\ UNCHANGED <<now, throttlerVars, cacheVars, raceVars, fusionVars,
                   rerankerVars, tlsVars>>

\* The scores the model predicts for one or two documents.
PipeScoreLists ==
    UNION {[1..n -> PredictChoices] : n \in 1..2}

NextPipeline ==
    \/ \E top_k \in PipeTopKs, apply_reranking \in BOOLEAN,
          metrics_outcome \in {"ok", "fails"} :
          PipeStart(top_k, apply_reranking, metrics_outcome)
    \/ \E level \in {"l1", "l2", "miss"} : PipeCacheGet(level)
    \/ \E outcome \in SearchOutcomes : PipeSearch(outcome)
    \/ \E stored \in BOOLEAN : PipeStore(stored)
    \/ \E outcome \in LocalOutcomes : PipeLocal(outcome)
    \/ \E outcome \in {"no_model", "raises"} : PipeRerank(outcome, <<>>)
    \/ \E scores \in PipeScoreLists : PipeRerank("scored", scores)
    \/ PipeFeedback

SpecPipeline == InitPipeline /\ [][NextPipeline]_vars

\* The backends that produced a result of the response: the engines of a
\* fused result, the engine of any other.
Producers(result) ==
    IF "engines" \in DOMAIN result THEN SeqToSet(result.engines)
    ELSE {result.engine}

\* The category the request was given.
RequestCategory ==
    IF pipe.r.routing.has_query_type THEN pipe.r.routing.query_type
    ELSE "general"

Impressions(performance, key) ==
    IF key \in DOMAIN performance THEN performance[key].total_impressions
    ELSE 0

\* The impressions a key has gained since the request began.
ImpressionGrowth(key) ==
    Impressions(feedback.performance, key)
      - Impressions(pipe.perf_before, key)

\* The ways to credit each displayed result to one of its producers.
Creditings ==
    {f \in [1..Len(pipe.r.results) ->
              UNION {Producers(pipe.r.results[n]) :
                        n \in 1..Len(pipe.r.results)}] :
        \A n \in 1..Len(pipe.r.results) :
            f[n] \in Producers(pipe.r.results[n])}

\* C17: when a full-pipeline request with a feedback loop has returned,
\* every displayed result has brought one impression to the record of (one
\* of its producing backends, the request's category), and no record has
\* grown otherwise.
C17_ImpressionsOnProducers ==
    (pipe.pc = "done" /\ pipe.config.feedback)
        => \E f \in Creditings :
              \A key \in DOMAIN feedback.performance :
                  ImpressionGrowth(key) =
                      Cardinality({n \in DOMAIN f :
                                      <<f[n], RequestCategory>> = key})

\* C18: in a request whose web results were fused, the weight the fusion
\* engine holds for each backend is its static default weight multiplied by
\* the weight the feedback loop has learned for (backend, the request's
\* category), and that multiplier lies in [0.5, 2.0].
C18_LearnedWeightsFeedFusion ==
    pipe.r.fusion.applied
        => \A b \in DOMAIN pipe.engine_weights :
              LET m == GetWeightAdjustment(pipe.perf_before, b,
                                           RequestCategory)
              IN  /\ FracLeq(Frac(1, 2), m)
                  /\ FracLeq(m, Frac(2, 1))
                  /\ pipe.engine_weights[b] * m.den
                         = DEFAULT_WEIGHTS[b] * m.num

\* The request had no cross-encoder model: the client has no reranker (the
\* library is missing), or the model did not load.
ModelUnavailable ==
    ~pipe.config.reranker \/ pipe.r.rerank_fallback

\* What rerank returned is a prefix of its input, in the order of the input,
\* with strictly decreasing scores.
FallbackKeepsInputOrder ==
    LET input == Combined(pipe.r.local_results, pipe.r.web_results)
        returned == pipe.r.rerank_returned
    IN  /\ Len(returned) <= Len(input)
        /\ \A n \in 1..Len(returned) :
              returned[n].original_result = input[n]
        /\ \A n \in 1..(Len(returned) - 1) :
              FracLess(returned[n + 1].final_score, returned[n].final_score)

\* C19: when a request has passed the reranking stage without a model, what
\* rerank returned (if it was called) is its input in the input order with
\* strictly decreasing scores, and the response reports reranking applied =
\* false.
C19_UnavailableModelNotApplied ==
    (pipe.pc \in {"feedback", "done"} /\ ModelUnavailable)
        => /\ pipe.r.rerank_fallback => FallbackKeepsInputOrder
           /\ ~pipe.r.reranking.applied

\* C21: a request that was served from the cache goes straight to the final
\* steps: it awaits neither the local index nor the reranker, it has made no
\* fresh search and no fusion, and every result it returns is a cached
\* result tagged as a web result.
C21_CacheHitSkipsToTheEnd ==
    pipe.r.cache_hit
        => /\ pipe.pc \in {"feedback", "done"}
           /\ ~pipe.r.searched
           /\ ~pipe.r.fusion.applied
           /\ pipe.r.local_docs.note = ""
           /\ pipe.r.rerank_calls = 0
           /\ \A n \in 1..Len(pipe.r.results) :
                 pipe.r.results[n]
                     \in {Put(pipe.r.web_results[k], "source_type", "web") :
                             k \in 1..Len(pipe.r.web_results)}

\* The request has called self._cache.store: the call is pending or has
\* returned.
CalledStore == pipe.pc = "store" \/ pipe.r.stores > 0

\* C22: a request calls store at most once, and only with the results of its
\* own fresh search: never after a cache hit, and never when the search gave
\* no results.
C22_StoreOnlyFresh ==
    /\ pipe.r.stores + (IF pipe.pc = "store" THEN 1 ELSE 0) <= 1
    /\ CalledStore
          => /\ ~pipe.r.cache_hit
             /\ pipe.r.searched
             /\ pipe.r.web_results # <<>>

\* A second request was served from the entry the first request stored, and
\* has returned without a store of its own.
C22_Witness ==
    /\ pipe.requests = 2
    /\ pipe.pc = "done"
    /\ pipe.r.cache_hit
    /\ pipe.cached.present
    /\ pipe.r.web_results = pipe.cached.results
    /\ pipe.r.stores = 0

\* The response of a returned request is structured: the cache and the
\* reranking stages are reported, the results number at most top_k and are
\* counted.
StructuredResponse ==
    /\ pipe.r.result_count = Len(pipe.r.results)
    /\ Len(pipe.r.results) <= pipe.r.top_k
    /\ pipe.r.cache.hit = pipe.r.cache_hit
    /\ pipe.r.reranking.applied \/ pipe.r.reranking.note # ""
    /\ pipe.r.metrics \in {"recorded", "error"}

\* The stages of a request in the order of the code; an exception that left
\* search_full_pipeline would be no stage.
StageRank(pc) ==
    CASE pc = "cache" -> 1
      [] pc = "search" -> 2
      [] pc = "store" -> 3
      [] pc = "local" -> 4
      [] pc = "rerank" -> 5
      [] pc = "feedback" -> 6
      [] pc = "done" -> 7
      [] OTHER -> 0

\* Every step of a request in progress, whatever the awaited component
\* did, leads to a later stage or to the return.
MovesToALaterStage ==
    pipe.pc \notin {"idle", "done"}
        => StageRank(pipe'.pc) > StageRank(pipe.pc)

\* C23: whatever fails (the search, the cache, the local index, the
\* reranker, the metrics, the feedback store), no exception leaves
\* search_full_pipeline: every step of a request leads it to a later stage,
\* and where the request ends it has returned a structured response.
C23_NeverPropagates ==
    /\ [](pipe.pc # "raised")
    /\ []((pipe.pc = "done" /\ pipe.requests > 0) => StructuredResponse)
    /\ [][MovesToALaterStage]_vars

\* A request has returned although its cache missed, its search raised, its
\* local search raised and its metrics failed.
C23_Witness ==
    /\ pipe.pc = "done"
    /\ pipe.config = AllComponents
    /\ pipe.r.searched
    /\ ~pipe.r.fusion.applied
    /\ pipe.r.local_docs.note = "error"
    /\ pipe.r.metrics = "error"
    /\ pipe.r.results = <<>>
    /\ StructuredResponse

\* The results are the dicts the reranker returned, in the order it returned
\* them.
InRerankerOrder ==
    /\ Len(pipe.r.results) = Len(pipe.r.rerank_returned)
    /\ \A k \in 1..Len(pipe.r.results) :
          pipe.r.results[k] = RerankToDict(pipe.r.rerank_returned[k])

\* C24: a request whose reranking was applied returns the results in the
\* order the reranker gave them, by non-increasing final rerank score and at
\* most top_k of them: nothing reorders them after the reranking.
C24_RerankerOrderIsFinal ==
    (pipe.pc \in {"feedback", "done"} /\ pipe.requests > 0
         /\ pipe.r.reranking.applied /\ ~pipe.r.rerank_fallback)
        => /\ InRerankerOrder
           /\ Len(pipe.r.results) <= pipe.r.top_k
           /\ \A k \in 1..(Len(pipe.r.results) - 1) :
                 FracLeq(pipe.r.results[k + 1].rerank_scores.final,
                         pipe.r.results[k].rerank_scores.final)

\* The normalized URLs of the results of the response, in their order.
ResultUrls == [k \in 1..Len(pipe.r.results) |->
                 DefaultUrlNormalizer(pipe.r.results[k].url)]

\* C25: in the response of the full pipeline no two results have the same
\* normalized URL: a local document is there once, tagged as local, and a
\* web result (fresh or cached) of the same normalized URL is not there
\* beside it.
C25_OneResultPerNormalizedUrl ==
    (pipe.pc \in {"feedback", "done"} /\ pipe.requests > 0)
        => \A j, k \in 1..Len(pipe.r.results) :
              ResultUrls[j] = ResultUrls[k] => j = k

(***************************************************************************)
(* TLSRotator (tls_rotation.py): the session the concurrent requests of    *)
(* the client share. A task runs from one await to the next.               *)
(***************************************************************************)

\* TLSConfig.session_ttl_seconds
SESSION_TTL_SECONDS == 300000

\* TLSConfig.timeout: a request is over within it.
TLS_TIMEOUT == 30000

TlsTasks == {"t1", "t2"}

\* TLSRotator.get is called at most this many times in a run.
MaxTlsRequests == 3

\* The clock is not advanced past StartTime + TlsMaxElapsed.
TlsMaxElapsed == 320000

\* Clock advances.
TlsTickSteps == {10000, 300000}

\* self._session is None
NoSession == 0

IdleTlsTask == [pc |-> "idle", now |-> 0, session |-> NoSession, issued_at |-> 0]

\* _get_session, "Create new session if needed", with the time read at line 154.
NeedsNewSession(t_now) ==
    \/ tls.session = NoSession
    \/ t_now - tls.session_created_at > SESSION_TTL_SECONDS
    \/ tls.rotate_per_request

\* _get_session returns the session to get, which issues its request on it
\* with no await in between.
IssueRequest(task, session) ==
    [task EXCEPT !.pc = "in_flight", !.session = session, !.issued_at = now]

\* Lines 169-182: the browser is chosen and the new session made; sessions are
\* numbered in the order of their creation. created_at is the time read
\* before the old session was closed.
CreateSession(t, created_at) ==
    LET session == tls.rotations + 1
    IN  tls' = [tls EXCEPT !.session = session,
                           !.session_created_at = created_at,
                           !.rotations = @ + 1,
                           !.lock = "",
                           !.task[t] = IssueRequest(@, session)]

\* get is called and reaches _get_session. With the lock taken the task waits
\* for it. With the lock free the task takes it and goes on without yielding:
\* the session at hand is returned, or a first session is made, or the close
\* of the session at hand is awaited with the lock held.
GetSessionEnter(t) ==
    /\ tls.task[t].pc \in {"idle", "waiting"}
    /\ tls.task[t].pc = "idle" => tls.calls < MaxTlsRequests
    /\ LET calls_made == IF tls.task[t].pc = "idle" THEN tls.calls + 1
                         ELSE tls.calls
       IN  IF tls.lock # ""
           THEN /\ tls.task[t].pc = "idle"
                /\ tls' = [tls EXCEPT !.calls = calls_made,
                                      !.task[t].pc = "waiting"]
           ELSE IF ~NeedsNewSession(now)
           THEN tls' = [tls EXCEPT !.calls = calls_made,
                                   !.task[t] = IssueRequest(@, tls.session)]
           ELSE IF tls.session = NoSession
           THEN \E made \in {[tls EXCEPT !.calls = calls_made]} :
                    tls' = [made EXCEPT
                               !.session = tls.rotations + 1,
                               !.session_created_at = now,
                               !.rotations = @ + 1,
                               !.task[t] = IssueRequest(@, tls.rotations + 1)]
           ELSE tls' = [tls EXCEPT !.calls = calls_made,
                                   !.lock = t,
                                   !.closed = @ \union {tls.session},
                                   !.task[t].pc = "closing",
                                   !.task[t].now = now]
    /\ UNCHANGED <<now, throttlerVars, cacheVars, raceVars, fusionVars,
                   feedbackVars, rerankerVars, pipeVars>>

\* The close of the old session is over: the new session is made, the lock is
\* released and the request is issued.
GetSessionCreate(t) ==
    /\ tls.task[t].pc = "closing"
    /\ CreateSession(t, tls.task[t].now)
    /\ UNCHANGED <<now, throttlerVars, cacheVars, raceVars, fusionVars,
                   feedbackVars, rerankerVars, pipeVars>>

\* The request of get ends, with a response or with an error.
RequestDone(t, success) ==
    /\ tls.task[t].pc = "in_flight"
    /\ tls' = [tls EXCEPT
                  !.task[t] = IdleTlsTask,
                  !.successful = IF success THEN @ + 1 ELSE @,
                  !.failed = IF success THEN @ ELSE @ + 1]
    /\ UNCHANGED <<now, throttlerVars, cacheVars, raceVars, fusionVars,
                   feedbackVars, rerankerVars, pipeVars>>

\* time.time() advances, no further than the timeout of a request in flight.
TlsTick ==
    /\ \E d \in TlsTickSteps :
           /\ now + d <= StartTime + TlsMaxElapsed
           /\ \A t \in TlsTasks :
                 tls.task[t].pc = "in_flight"
                     => now + d <= tls.task[t].issued_at + TLS_TIMEOUT
           /\ now' = now + d
    /\ UNCHANGED <<throttlerVars, cacheVars, raceVars, restVars>>

InitTls ==
    /\ now = StartTime
    /\ engine_health = <<>>
    /\ last_request_time = 0
    /\ last_call = NoCall
    /\ run = <<>>
    /\ req = <<>>
    /\ CacheUnused
    /\ fusion = <<>>
    /\ feedback = <<>>
    /\ reranker = <<>>
    /\ pipe = <<>>
    /\ \E rotate_per_request \in BOOLEAN :
          tls = [rotate_per_request |-> rotate_per_request,
                 session |-> NoSession, session_created_at |-> 0,
                 lock |-> "", rotations |-> 0, closed |-> {},
                 calls |-> 0, successful |-> 0, failed |-> 0,
                 task |-> [t \in TlsTasks |-> IdleTlsTask]]

NextTls ==
    \/ \E t \in TlsTasks : GetSessionEnter(t)
    \/ \E t \in TlsTasks : GetSessionCreate(t)
    \/ \E t \in TlsTasks, success \in BOOLEAN : RequestDone(t, success)
    \/ TlsTick

SpecTls == InitTls /\ [][NextTls]_vars

\* C40: the session a request in flight was issued on has not been closed.
C40_InFlightSessionStaysOpen ==
    \A t \in TlsTasks :
        tls.task[t].pc = "in_flight" => tls.task[t].session \notin tls.closed

====
